---- MODULE Spec2Model ----
(***************************************************************************)
(* A model of the slide composition engine of needful: the Slide class of  *)
(* needful/_slide.py, the grid elements it constructs and the derived      *)
(* views (html, js_plot_func, js_purge_func) it exposes; and of the        *)
(* Presentation class of needful/_presentation.py, which collects slides   *)
(* and their themes and renders them.                                      *)
(*                                                                         *)
(* Spec is one slide and the add calls made on it; SpecFs adds a file      *)
(* system that changes; SpecMake applies each constructor once to every    *)
(* input; SpecPres is a presentation and the calls made on it.             *)
(*                                                                         *)
(* Slide is modelled from needful/_slide.py.  The element classes are      *)
(* modelled from the revisions whose constructors take the arguments that  *)
(* Slide passes them: GridObject from _html_objects/grid_object.py,        *)
(* TextBox, Image and MPLFigure from _slide_mixins/.  The PlotlyFigure and *)
(* BokehFigure adapters of that revision are not part of the source tree   *)
(* and are modelled from the specification.                                *)
(*                                                                         *)
(* Python values whose type varies are tagged records ([type, value]);     *)
(* rows, columns and spans are plain integers.  An object under            *)
(* construction is a function from attribute names to values, so that the  *)
(* attributes set before an exception is raised are visible.               *)
(***************************************************************************)
EXTENDS Integers, Sequences, FiniteSets, TLC

VARIABLES
    _elements,      \* Slide._elements: the element objects, in insertion order
    _filled_pos,    \* Slide._filled_pos: the registered (row, column) pairs
    files,          \* the regular files that exist on the file system
    accepted,       \* history: the elements whose add call returned normally
    last,           \* the last call: its name, the steps it ran, its exception
    slides,         \* Presentation.slides: the slide objects, in insertion order
    _css_themes,    \* Presentation._css_themes: the registered theme objects
    html_out,       \* Presentation.html_out: the document rendered last
    written,        \* the files generate_html has written, path to content
    plast,          \* the last call on the presentation, and how it ended
    constructed     \* the outcome of the constructor applied last

\* The state of one slide and of the file system it reads.
slide_vars == <<_elements, _filled_pos, files, accepted, last>>

\* The state of the presentation.
presentation_vars == <<slides, _css_themes, html_out, written, plast>>

vars == <<_elements, _filled_pos, files, accepted, last,
          slides, _css_themes, html_out, written, plast, constructed>>

-----------------------------------------------------------------------------
(* Bounds of the model.                                                    *)

\* The slide the add operations are called on was constructed with
\* SlideColumns columns.
SlideColumns == 1

\* Rows offered to the add operations range over 0..MaxRow.
MaxRow == 1
\* Columns offered to the add operations range over 0..MaxCol.
MaxCol == 2
\* Row spans offered to the add operations range over 0..MaxRowSpan.
MaxRowSpan == 1
\* Column spans offered to the add operations range over 0..MaxColSpan.
MaxColSpan == 2
\* The add operations are offered while the slide holds fewer elements.
MaxElems == 2

Rows == 0..MaxRow
Cols == 0..MaxCol
RowSpans == 0..MaxRowSpan
ColSpans == 0..MaxColSpan

-----------------------------------------------------------------------------
(* Python values.                                                          *)

PyNone == [type |-> "NoneType"]
PyStr(s) == [type |-> "str", value |-> s]
PyInt(i) == [type |-> "int", value |-> i]
PyDict(d) == [type |-> "dict", value |-> d]

\* Python truthiness of an Optional[str].
Truthy(v) == v.type = "str" /\ v.value # ""

\* An exception, and the absence of one.
Raise(type, msg) == [type |-> type, msg |-> msg]
NoExc == [type |-> "None", msg |-> ""]
Raised(e) == e.type # "None"

Min(S) == CHOOSE m \in S : \A n \in S : m <= n

\* The items of a sequence.
Range(seq) == {seq[i] : i \in 1..Len(seq)}

\* An object with no attribute set.
NewObject(cls) == [__class__ |-> cls]
SetAttr(self, name, val) == (name :> val) @@ self
HasAttr(self, name) == name \in DOMAIN self

(* Strings: str.strip, the `in` operator on strings, str.replace, join.    *)
IsSpace(c) == c \in {" ", "\t", "\n"}

RECURSIVE lstrip(_)
lstrip(s) ==
    IF Len(s) > 0 /\ IsSpace(SubSeq(s, 1, 1))
    THEN lstrip(SubSeq(s, 2, Len(s)))
    ELSE s

RECURSIVE rstrip(_)
rstrip(s) ==
    IF Len(s) > 0 /\ IsSpace(SubSeq(s, Len(s), Len(s)))
    THEN rstrip(SubSeq(s, 1, Len(s) - 1))
    ELSE s

strip(s) == rstrip(lstrip(s))

\* sub in s
StrIn(sub, s) ==
    \E i \in 1..(Len(s) - Len(sub) + 1) : SubSeq(s, i, i + Len(sub) - 1) = sub

RECURSIVE replace(_, _, _)
replace(s, old, new) ==
    IF Len(s) < Len(old) THEN s
    ELSE IF SubSeq(s, 1, Len(old)) = old
         THEN new \o replace(SubSeq(s, Len(old) + 1, Len(s)), old, new)
         ELSE SubSeq(s, 1, 1) \o replace(SubSeq(s, 2, Len(s)), old, new)

RECURSIVE join(_, _)
join(sep, strs) ==
    IF Len(strs) = 0 THEN ""
    ELSE IF Len(strs) = 1 THEN strs[1]
    ELSE strs[1] \o sep \o join(sep, Tail(strs))

-----------------------------------------------------------------------------
(* needful/_utils/__init__.py                                              *)

\* The name check_type prints for a tuple of expected types.
RECURSIVE CommaJoin(_)
CommaJoin(names) ==
    IF Len(names) = 1 THEN names[1]
    ELSE names[1] \o ", " \o CommaJoin(Tail(names))

type_name(expected) ==
    IF Len(expected) = 1 THEN expected[1]
    ELSE CommaJoin(SubSeq(expected, 1, Len(expected) - 1))
             \o " or " \o expected[Len(expected)]

\* check_type(var_name, var, expected_type): expected is the tuple of types.
check_type(var_name, var, expected) ==
    IF \E i \in 1..Len(expected) : var.type = expected[i]
    THEN NoExc
    ELSE Raise("TypeError",
               "Variable " \o var_name \o " is of type " \o var.type
                   \o "; expected " \o type_name(expected) \o ".")

\* check_sanity_int(var_name, var), for an int var.
check_sanity_int(var_name, var) ==
    IF Raised(check_type(var_name, PyInt(var), <<"int">>))
    THEN check_type(var_name, PyInt(var), <<"int">>)
    ELSE IF var < 1
    THEN Raise("ValueError",
               var_name \o " must be greater than 0. Received " \o var_name
                   \o " = " \o ToString(var) \o ".")
    ELSE NoExc

\* Path(path).absolute(), in the working directory of the process.
absolute(path) == "/cwd/" \o path

\* The directories of the file system.
Dirs == {"imgdir"}

\* check_exists without the test that the path is a regular file.
check_exists_any_kind(path, name, fs) ==
    LET exists == path \in fs \/ path \in Dirs
    IN IF ~exists
       THEN Raise("FileNotFoundError",
                  name \o " not found at " \o absolute(path) \o ".")
       ELSE NoExc

\* check_exists(path, name, file=True) against the file system fs.
check_exists(path, name, fs) ==
    LET exists == path \in fs \/ path \in Dirs
        is_not_file == ~(path \in fs)
    IN IF ~exists \/ is_not_file
       THEN Raise("FileNotFoundError",
                  name \o " not found at " \o absolute(path) \o ".")
       ELSE NoExc

-----------------------------------------------------------------------------
(* needful/_html_objects/grid_object.py                                    *)

\* _check_and_set storing each value as soon as it has been checked.
_check_and_set_stepwise(self, row, column, row_span, col_span, css_class) ==
    LET names == <<"row", "column", "row_span", "col_span">>
        values == <<row, column, row_span, col_span>>
        checks == [i \in 1..4 |-> check_sanity_int(names[i], values[i])]
        failed == {i \in 1..4 : Raised(checks[i])}
        upto == IF failed = {} THEN 4 ELSE Min(failed) - 1
        placed == [name \in {names[i] : i \in 1..upto} |->
                      values[CHOOSE i \in 1..upto : names[i] = name]] @@ self
        tc == check_type("css_class", css_class, <<"str", "NoneType">>)
        css == IF Truthy(css_class) /\ strip(css_class.value) = ""
               THEN PyNone ELSE css_class
    IN IF failed # {} THEN [exc |-> checks[Min(failed)], self |-> placed]
       ELSE IF Raised(tc) THEN [exc |-> tc, self |-> placed]
       ELSE [exc |-> NoExc, self |-> SetAttr(placed, "css_class", css)]

\* GridObject._check_and_set: the exception raised and the object as it then is.
_check_and_set(self, row, column, row_span, col_span, css_class) ==
    LET checks == << check_sanity_int("row", row),
                     check_sanity_int("column", column),
                     check_sanity_int("row_span", row_span),
                     check_sanity_int("col_span", col_span) >>
        failed == {i \in 1..4 : Raised(checks[i])}
        placed == SetAttr(SetAttr(SetAttr(SetAttr(self,
                      "row", row), "column", column),
                      "row_span", row_span), "col_span", col_span)
        tc == check_type("css_class", css_class, <<"str", "NoneType">>)
        css == IF Truthy(css_class) /\ strip(css_class.value) = ""
               THEN PyNone ELSE css_class
    IN IF failed # {} THEN [exc |-> checks[Min(failed)], self |-> self]
       ELSE IF Raised(tc) THEN [exc |-> tc, self |-> placed]
       ELSE [exc |-> NoExc, self |-> SetAttr(placed, "css_class", css)]

\* _style_str taking the spans as the last line occupied.
_style_str_inclusive(self) ==
    LET css_str == "grid-column : " \o ToString(self.column) \o " / "
                       \o ToString(self.column + self.col_span - 1)
                       \o "; grid-row : " \o ToString(self.row) \o " / "
                       \o ToString(self.row + self.row_span - 1) \o ";"
        class_str == IF Truthy(self.css_class)
                     THEN " class=\"" \o self.css_class.value \o "\""
                     ELSE ""
    IN "style=\"" \o css_str \o "\"" \o class_str

\* GridObject._style_str
_style_str(self) ==
    LET css_str == "grid-column : " \o ToString(self.column) \o " / "
                       \o ToString(self.column + self.col_span)
                       \o "; grid-row : " \o ToString(self.row) \o " / "
                       \o ToString(self.row + self.row_span) \o ";"
        class_str == IF Truthy(self.css_class)
                     THEN " class=\"" \o self.css_class.value \o "\""
                     ELSE ""
    IN "style=\"" \o css_str \o "\"" \o class_str

-----------------------------------------------------------------------------
(* needful/_slide_mixins/textboxes.py: TextBox                             *)

\* Markdown(extensions).convert(text), for one paragraph of plain text.
md_convert(text) == "<p>" \o text \o "</p>"

\* TextBox.__init__ validating the placement before the content.
TextBox_placement_first(content, row, column, row_span, col_span, markdown, keep_linebreaks, css_class) ==
    LET self0 == NewObject("TextBox")
        cs == _check_and_set(self0, row, column, row_span, col_span, css_class)
        tc == check_type("content", content, <<"str">>)
        self1 == SetAttr(cs.self, "content", content)
        self2 == IF Truthy(self1.css_class)
                 THEN IF ~StrIn("textbox", self1.css_class.value)
                      THEN SetAttr(self1, "css_class",
                                   PyStr(self1.css_class.value \o " textbox"))
                      ELSE self1
                 ELSE SetAttr(self1, "css_class", PyStr("textbox"))
        self3 == SetAttr(SetAttr(self2, "markdown", markdown),
                         "keep_linebreaks", keep_linebreaks)
    IN IF Raised(cs.exc)
       THEN [exc |-> cs.exc, self |-> cs.self, steps |-> <<"_check_and_set">>]
       ELSE IF Raised(tc)
       THEN [exc |-> tc, self |-> cs.self,
             steps |-> <<"_check_and_set", "check_type(content)">>]
       ELSE [exc |-> NoExc, self |-> self3,
             steps |-> <<"_check_and_set", "check_type(content)">>]

\* TextBox.__init__: [exc, self, steps]
TextBox(content, row, column, row_span, col_span, markdown, keep_linebreaks, css_class) ==
    LET self0 == NewObject("TextBox")
        tc == check_type("content", content, <<"str">>)
        self1 == SetAttr(self0, "content", content)
        cs == _check_and_set(self1, row, column, row_span, col_span, css_class)
        self2 == IF Truthy(cs.self.css_class)
                 THEN IF ~StrIn("textbox", cs.self.css_class.value)
                      THEN SetAttr(cs.self, "css_class",
                                   PyStr(cs.self.css_class.value \o " textbox"))
                      ELSE cs.self
                 ELSE SetAttr(cs.self, "css_class", PyStr("textbox"))
        self3 == SetAttr(SetAttr(self2, "markdown", markdown),
                         "keep_linebreaks", keep_linebreaks)
    IN IF Raised(tc)
       THEN [exc |-> tc, self |-> self0, steps |-> <<"check_type(content)">>]
       ELSE IF Raised(cs.exc)
       THEN [exc |-> cs.exc, self |-> cs.self,
             steps |-> <<"check_type(content)", "_check_and_set">>]
       ELSE [exc |-> NoExc, self |-> self3,
             steps |-> <<"check_type(content)", "_check_and_set">>]

\* TextBox.get_div: [exc, value].  The last step of get_div replaces every
\* backtick of the text by its HTML entity; a TLA+ string cannot hold a
\* backtick, the contents offered hold none, and the step changes nothing.
TextBox_get_div(self, fs) ==
    LET text0 == IF self.keep_linebreaks /\ ~self.markdown
                 THEN replace(self.content.value, "\n", "<br>")
                 ELSE self.content.value
        text1 == IF self.markdown THEN md_convert(text0) ELSE text0
    IN [exc |-> NoExc,
        value |-> "<div " \o _style_str(self) \o ">" \o text1 \o "</div>"]

-----------------------------------------------------------------------------
(* needful/_slide_mixins/images.py: Image                                  *)

\* The files that PIL can open, and the width PIL reports for them.
IsImageFile(path) == path \in {"a.png"}
ImageWidth(path) == 640

\* Image.__init__: [exc, self, steps]
Image(image_path, row, column, row_span, col_span, width_pct, css_class, fs) ==
    LET self0 == NewObject("Image")
        tc == check_type("image_path", image_path, <<"str", "Path">>)
        ce == check_exists(image_path.value, "Image", fs)
        self1 == SetAttr(self0, "image_file", image_path)
        cs == _check_and_set(self1, row, column, row_span, col_span, css_class)
        cw == check_sanity_int("width_pct", width_pct)
    IN IF Raised(tc)
       THEN [exc |-> tc, self |-> self0, steps |-> <<"check_type(image_path)">>]
       ELSE IF Raised(ce)
       THEN [exc |-> ce, self |-> self0,
             steps |-> <<"check_type(image_path)", "check_exists">>]
       ELSE IF Raised(cs.exc)
       THEN [exc |-> cs.exc, self |-> cs.self,
             steps |-> <<"check_type(image_path)", "check_exists",
                         "_check_and_set">>]
       ELSE IF Raised(cw)
       THEN [exc |-> cw, self |-> cs.self,
             steps |-> <<"check_type(image_path)", "check_exists",
                         "_check_and_set", "check_sanity_int(width_pct)">>]
       ELSE [exc |-> NoExc, self |-> SetAttr(cs.self, "width_pct", width_pct),
             steps |-> <<"check_type(image_path)", "check_exists",
                         "_check_and_set", "check_sanity_int(width_pct)">>]

\* Image.get_div working from bytes read when the image was constructed.
Image_get_div_cached(self, fs) ==
    LET path == self.image_file.value
        img == "base64(" \o path \o ")"
        img_width == (self.width_pct * ImageWidth(path)) \div 100
    IN [exc |-> NoExc,
        value |-> "<div " \o _style_str(self)
            \o "><center><img src=\"data:image;base64, " \o img
            \o "\" style=\"justify-self:center\" width="
            \o ToString(img_width) \o "px></center></div>"]

\* Image.get_div: the file is opened and read here, not in __init__.
Image_get_div(self, fs) ==
    LET path == self.image_file.value
        img == "base64(" \o path \o ")"
        img_width == (self.width_pct * ImageWidth(path)) \div 100
    IN IF ~(path \in fs)
       THEN [exc |-> Raise("FileNotFoundError",
                           "No such file or directory: " \o path),
             value |-> ""]
       ELSE IF ~IsImageFile(path)
       THEN [exc |-> Raise("UnidentifiedImageError",
                           "cannot identify image file " \o path),
             value |-> ""]
       ELSE [exc |-> NoExc,
             value |-> "<div " \o _style_str(self)
                 \o "><center><img src=\"data:image;base64, " \o img
                 \o "\" style=\"justify-self:center\" width="
                 \o ToString(img_width) \o "px></center></div>"]

-----------------------------------------------------------------------------
(* Figure objects of the charting libraries, as add_plot sees them: the    *)
(* module and name of their class, the attributes hasattr finds, and, for  *)
(* Bokeh, whether bokeh.embed.json_item accepts them.                      *)

FigureObject(module, name, attrs, json_ok) ==
    [type |-> name, module |-> module, attrs |-> attrs, json_ok |-> json_ok]

PlotlyFig == FigureObject("plotly.graph_objs._figure", "Figure", {"to_html"}, FALSE)
PlotlyScatter == FigureObject("plotly.graph_objs._scatter", "Scatter", {}, FALSE)
MplFig == FigureObject("matplotlib.figure", "Figure", {"savefig", "get_figure"}, FALSE)
MplAxes == FigureObject("matplotlib.axes._axes", "Axes", {"get_figure"}, FALSE)
MplNormalize == FigureObject("matplotlib.colors", "Normalize", {}, FALSE)
BokehFig == FigureObject("bokeh.plotting._figure", "figure", {}, TRUE)
BokehRange == FigureObject("bokeh.models.ranges", "Range1d", {}, FALSE)
DataFrame == FigureObject("pandas.core.frame", "DataFrame", {"to_html"}, FALSE)

hasattr(obj, name) == name \in obj.attrs

\* Axes.get_figure()
get_figure(obj) == MplFig

\* isinstance(var, cls) inside check_type, for a class of a charting library.
check_type_class(var_name, var, module, name) ==
    IF var.module = module /\ var.type = name
    THEN NoExc
    ELSE Raise("TypeError",
               "Variable " \o var_name \o " is of type " \o var.type
                   \o "; expected " \o name \o ".")

\* bokeh.embed.json_item(figure_object, bokeh_theme)
json_item(obj) ==
    IF obj.json_ok THEN NoExc
    ELSE Raise("ValueError", "Input must be a Model, a Document, or a Sequence")

-----------------------------------------------------------------------------
(* needful/_slide_mixins/_mpl_figure.py: MPLFigure                         *)

\* str.lower, on the formats offered.
lower(s) == IF s = "PDF" THEN "pdf" ELSE IF s = "SVG" THEN "svg" ELSE s

\* MPLFigure.__init__ accepting every format and keeping its name.
MPLFigure_any_format(fig, row, column, row_span, col_span, css_class, config) ==
    LET self0 == NewObject("MPLFigure")
        tc == check_type_class("fig", fig, "matplotlib.figure", "Figure")
        cfg == IF config.type # "NoneType" THEN config.value ELSE <<>>
        self1 == SetAttr(SetAttr(self0, "fig", fig), "config", cfg)
        has_format == "format" \in DOMAIN cfg
        fmt == IF has_format THEN lower(cfg["format"]) ELSE "png"
        self2 == SetAttr(SetAttr(self1, "fmt", fmt),
                         "fig_out", "savefig(" \o fmt \o ")")
        cs == _check_and_set(self2, row, column, row_span, col_span, css_class)
    IN IF Raised(tc)
       THEN [exc |-> tc, self |-> self0, steps |-> <<"check_type(fig)">>]
       ELSE [exc |-> cs.exc, self |-> cs.self,
             steps |-> <<"check_type(fig)", "format", "savefig",
                         "_check_and_set">>]

\* MPLFigure.__init__: [exc, self, steps]
MPLFigure(fig, row, column, row_span, col_span, css_class, config) ==
    LET self0 == NewObject("MPLFigure")
        tc == check_type_class("fig", fig, "matplotlib.figure", "Figure")
        cfg == IF config.type # "NoneType" THEN config.value ELSE <<>>
        self1 == SetAttr(SetAttr(self0, "fig", fig), "config", cfg)
        has_format == "format" \in DOMAIN cfg
        is_pdf == has_format /\ lower(cfg["format"]) = "pdf"
        fmt == IF has_format /\ lower(cfg["format"]) = "svg" THEN "svg" ELSE "png"
        self2 == SetAttr(SetAttr(self1, "fmt", fmt),
                         "fig_out", "savefig(" \o fmt \o ")")
        cs == _check_and_set(self2, row, column, row_span, col_span, css_class)
    IN IF Raised(tc)
       THEN [exc |-> tc, self |-> self0, steps |-> <<"check_type(fig)">>]
       ELSE IF is_pdf
       THEN [exc |-> Raise("ValueError",
                 "PDF format not supported for Matplotlib figures. Try format='svg' or format='png'."),
             self |-> self1, steps |-> <<"check_type(fig)", "format">>]
       ELSE [exc |-> cs.exc, self |-> cs.self,
             steps |-> <<"check_type(fig)", "format", "savefig",
                         "_check_and_set">>]

\* MPLFigure.get_div
MPLFigure_get_div(self, fs) ==
    IF self.fmt = "png"
    THEN [exc |-> NoExc,
          value |-> "<div " \o _style_str(self)
              \o "><center><img src=\"data:image;base64, base64("
              \o self.fig_out \o ")\" style=\"justify-self:center\"></center></div>"]
    ELSE IF self.fmt = "svg"
    THEN [exc |-> NoExc,
          value |-> "<div " \o _style_str(self) \o "><center>"
              \o self.fig_out \o "</center></div>"]
    ELSE [exc |-> Raise("RuntimeError", "We should not be here."), value |-> ""]

-----------------------------------------------------------------------------
(* PlotlyFigure and BokehFigure, the adapters add_plot constructs with     *)
(* (figure, row, column, row_span, col_span, css_class, options) and the   *)
(* views read through fig_id and get_plot_js().                            *)

\* secrets.token_hex(5): the tokens the generator may return.
Tokens == {"0a1b2c3d4e", "5f6a7b8c9d"}

\* PlotlyFigure.__init__: [exc, self, steps]; token is what token_hex returns.
PlotlyFigure(fig, row, column, row_span, col_span, css_class, config, token) ==
    LET self0 == NewObject("PlotlyFigure")
        tc == check_type_class("fig", fig, "plotly.graph_objs._figure", "Figure")
        self1 == SetAttr(SetAttr(self0, "fig", fig), "config", config)
        cs == _check_and_set(self1, row, column, row_span, col_span, css_class)
    IN IF Raised(tc)
       THEN [exc |-> tc, self |-> self0, steps |-> <<"check_type(fig)">>]
       ELSE IF Raised(cs.exc)
       THEN [exc |-> cs.exc, self |-> cs.self,
             steps |-> <<"check_type(fig)", "_check_and_set">>]
       ELSE [exc |-> NoExc, self |-> SetAttr(cs.self, "fig_id", token),
             steps |-> <<"check_type(fig)", "_check_and_set", "token_hex">>]

\* PlotlyFigure.get_plot_js: the Plotly.newPlot(...) call of fig.to_html,
\* with the generated div id replaced by fig_id.
PlotlyFigure_get_plot_js(self) ==
    "Plotly.newPlot(\"" \o self.fig_id \o "\", [data], {layout}, {config})"

\* BokehFigure.__init__: [exc, self, steps]
BokehFigure(fig, row, column, row_span, col_span, css_class, theme, token) ==
    LET self0 == NewObject("BokehFigure")
        self1 == SetAttr(SetAttr(self0, "fig", fig), "theme", theme)
        cs == _check_and_set(self1, row, column, row_span, col_span, css_class)
    IN IF Raised(cs.exc)
       THEN [exc |-> cs.exc, self |-> cs.self, steps |-> <<"_check_and_set">>]
       ELSE [exc |-> NoExc, self |-> SetAttr(cs.self, "fig_id", token),
             steps |-> <<"_check_and_set", "token_hex">>]

\* BokehFigure.get_plot_js: the statement that embeds the figure's JSON item
\* in the container named fig_id.
BokehFigure_get_plot_js(self) ==
    "Bokeh.embed.embed_item({json_item}, \"" \o self.fig_id \o "\")"

\* get_div of both adapters: the empty container tagged with fig_id.
Plot_get_div(self, fs) ==
    [exc |-> NoExc,
     value |-> "<div " \o _style_str(self) \o " id=\"" \o self.fig_id
         \o "\" class=\"plotdiv\"></div>"]

\* plot.get_plot_js()
get_plot_js(self) ==
    IF self.__class__ = "BokehFigure" THEN BokehFigure_get_plot_js(self)
    ELSE PlotlyFigure_get_plot_js(self)

\* GridObject.__str__: str(element) is element.get_div()
str(self, fs) ==
    CASE self.__class__ = "TextBox" -> TextBox_get_div(self, fs)
      [] self.__class__ = "Image" -> Image_get_div(self, fs)
      [] self.__class__ = "MPLFigure" -> MPLFigure_get_div(self, fs)
      [] OTHER -> Plot_get_div(self, fs)

-----------------------------------------------------------------------------
(* needful/_slide.py: Slide                                                *)

\* _elements.insert(0, element) in place of append.
append_front(elements, element) == <<element>> \o elements

\* Slide._elements.append(element)
append(elements, element) == Append(elements, element)

\* _check_grid_pos without the membership test: every position is registered.
_check_grid_pos_no_test(filled_pos, row, column) ==
    [exc |-> NoExc, filled_pos |-> Append(filled_pos, <<row, column>>)]

\* _check_grid_pos comparing rows only.
_check_grid_pos_row_only(filled_pos, row, column) ==
    IF \E i \in 1..Len(filled_pos) : filled_pos[i][1] = row
    THEN [exc |-> Raise("ValueError",
                        "An element is already present in row " \o ToString(row)
                            \o ", column " \o ToString(column)
                            \o " of this slide!"),
          filled_pos |-> filled_pos]
    ELSE [exc |-> NoExc, filled_pos |-> Append(filled_pos, <<row, column>>)]

\* _check_grid_pos registering the pair as (column, row).
_check_grid_pos_transposed(filled_pos, row, column) ==
    IF \E i \in 1..Len(filled_pos) : filled_pos[i] = <<row, column>>
    THEN [exc |-> Raise("ValueError",
                        "An element is already present in row " \o ToString(row)
                            \o ", column " \o ToString(column)
                            \o " of this slide!"),
          filled_pos |-> filled_pos]
    ELSE [exc |-> NoExc, filled_pos |-> Append(filled_pos, <<column, row>>)]

\* _check_grid_pos refusing a column beyond the columns of the slide.
_check_grid_pos_within_columns(filled_pos, row, column) ==
    IF column > SlideColumns
    THEN [exc |-> Raise("ValueError",
                        "column " \o ToString(column)
                            \o " is beyond the columns of this slide!"),
          filled_pos |-> filled_pos]
    ELSE IF \E i \in 1..Len(filled_pos) : filled_pos[i] = <<row, column>>
    THEN [exc |-> Raise("ValueError",
                        "An element is already present in row " \o ToString(row)
                            \o ", column " \o ToString(column)
                            \o " of this slide!"),
          filled_pos |-> filled_pos]
    ELSE [exc |-> NoExc, filled_pos |-> Append(filled_pos, <<row, column>>)]

\* Slide._check_grid_pos: the exception raised and the new _filled_pos.
_check_grid_pos(filled_pos, row, column) ==
    IF \E i \in 1..Len(filled_pos) : filled_pos[i] = <<row, column>>
    THEN [exc |-> Raise("ValueError",
                        "An element is already present in row " \o ToString(row)
                            \o ", column " \o ToString(column)
                            \o " of this slide!"),
          filled_pos |-> filled_pos]
    ELSE [exc |-> NoExc, filled_pos |-> Append(filled_pos, <<row, column>>)]

\* The end of an add operation with the position checked before the
\* constructor's outcome is looked at.
Place_position_first(elements, filled_pos, made, row, column) ==
    LET reg == _check_grid_pos(filled_pos, row, column)
    IN IF Raised(reg.exc)
       THEN [exc |-> reg.exc, steps |-> <<"_check_grid_pos">>,
             elements |-> elements, filled_pos |-> filled_pos]
       ELSE IF Raised(made.exc)
       THEN [exc |-> made.exc, steps |-> <<"_check_grid_pos">> \o made.steps,
             elements |-> elements, filled_pos |-> filled_pos]
       ELSE [exc |-> NoExc,
             steps |-> <<"_check_grid_pos">> \o made.steps \o <<"append">>,
             elements |-> append(elements, made.self),
             filled_pos |-> reg.filled_pos]

\* The three lines that end every add operation: construct, register, append.
\* made is the constructor's result [exc, self, steps].
Place(elements, filled_pos, made, row, column) ==
    LET reg == _check_grid_pos(filled_pos, row, column)
    IN IF Raised(made.exc)
       THEN [exc |-> made.exc, steps |-> made.steps,
             elements |-> elements, filled_pos |-> filled_pos]
       ELSE IF Raised(reg.exc)
       THEN [exc |-> reg.exc, steps |-> made.steps \o <<"_check_grid_pos">>,
             elements |-> elements, filled_pos |-> reg.filled_pos]
       ELSE [exc |-> NoExc,
             steps |-> made.steps \o <<"_check_grid_pos", "append">>,
             elements |-> append(elements, made.self),
             filled_pos |-> reg.filled_pos]

\* Slide.add_textbox
add_textbox(elements, filled_pos, content, row, column, row_span, col_span, css_class, markdown, keep_linebreaks) ==
    Place(elements, filled_pos,
          TextBox(content, row, column, row_span, col_span, markdown,
                  keep_linebreaks, css_class),
          row, column)

\* Slide.add_image
add_image(elements, filled_pos, image_path, row, column, row_span, col_span, width_pct, css_class, fs) ==
    Place(elements, filled_pos,
          Image(image_path, row, column, row_span, col_span, width_pct,
                css_class, fs),
          row, column)

\* A constructor's result, with the steps add_plot ran before calling it.
After(steps, made) == [made EXCEPT !.steps = steps \o made.steps]
Failed(steps, exc) == [exc |-> exc, self |-> <<>>, steps |-> steps]

\* supported_libs with a library that has no branch of its own.
supported_libs_pandas == <<"bokeh", "matplotlib", "plotly", "pandas">>

supported_libs == <<"bokeh", "matplotlib", "plotly">>

\* The Bokeh branch without the try/except around json_item.
add_plot_bokeh_unchecked(figure_object, row, column, row_span, col_span, css_class, bokeh_theme, token) ==
    After(<<"import bokeh.embed", "BokehFigure">>,
          BokehFigure(figure_object, row, column, row_span, col_span,
                      css_class, bokeh_theme, token))

\* The Bokeh branch of add_plot: json_item as a type check, then the adapter.
add_plot_bokeh(figure_object, row, column, row_span, col_span, css_class, bokeh_theme, token) ==
    IF Raised(json_item(figure_object))
    THEN Failed(<<"import bokeh.embed", "json_item">>,
             Raise("TypeError",
                 "Unknown Bokeh object passed to add_plot. Bokeh raised the following Exception:\n\t"
                     \o json_item(figure_object).type \o ": "
                     \o json_item(figure_object).msg))
    ELSE After(<<"import bokeh.embed", "json_item", "BokehFigure">>,
             BokehFigure(figure_object, row, column, row_span, col_span,
                         css_class, bokeh_theme, token))

\* The Matplotlib branch of add_plot.
add_plot_matplotlib(figure_object, row, column, row_span, col_span, css_class, matplotlib_params) ==
    LET mpl_fig == IF ~hasattr(figure_object, "savefig")
                   THEN get_figure(figure_object) ELSE figure_object
        tc == check_type("matplotlib_params", matplotlib_params, <<"dict", "NoneType">>)
    IN IF ~hasattr(figure_object, "get_figure") /\ ~hasattr(figure_object, "savefig")
       THEN Failed(<<"hasattr">>,
                Raise("TypeError",
                    "Unknown Matplotlib object passed to add_plot. Please provide a valid matplotlib Figure or Axes object. Received object of type "
                        \o figure_object.type \o "."))
       ELSE IF Raised(tc)
       THEN Failed(<<"hasattr", "import matplotlib.figure",
                     "check_type(matplotlib_params)">>, tc)
       ELSE After(<<"hasattr", "import matplotlib.figure",
                    "check_type(matplotlib_params)", "MPLFigure">>,
                MPLFigure(mpl_fig, row, column, row_span, col_span,
                          css_class, matplotlib_params))

\* The Plotly branch of add_plot.
add_plot_plotly(figure_object, row, column, row_span, col_span, css_class, plotly_config, token) ==
    LET tc == check_type("plotly_config", plotly_config, <<"dict", "NoneType">>)
    IN IF ~hasattr(figure_object, "to_html")
       THEN Failed(<<"hasattr">>,
                Raise("TypeError",
                    "Unknown Plotly object passed to add_plot. Please provide a valid plotly.graph_objs.Figure object. Received object of type "
                        \o figure_object.type \o "."))
       ELSE IF Raised(tc)
       THEN Failed(<<"hasattr", "check_type(plotly_config)">>, tc)
       ELSE After(<<"hasattr", "check_type(plotly_config)", "PlotlyFigure">>,
                PlotlyFigure(figure_object, row, column, row_span, col_span,
                             css_class, plotly_config, token))

\* add_plot up to the constructed adapter: the module name of the figure's
\* class selects the branch.
add_plot_make(figure_object, row, column, row_span, col_span, css_class, bokeh_theme, matplotlib_params, plotly_config, token) ==
    LET fig_module == lower(figure_object.module)
    IN IF ~(\E i \in 1..Len(supported_libs) : StrIn(supported_libs[i], fig_module))
       THEN Failed(<<"supported_libs">>,
                Raise("TypeError",
                    "Unknown figure_object passed to add_plot. Received figure of type "
                        \o figure_object.type \o "."))
       ELSE IF StrIn("bokeh", fig_module)
       THEN After(<<"supported_libs">>,
                add_plot_bokeh(figure_object, row, column, row_span, col_span,
                               css_class, bokeh_theme, token))
       ELSE IF StrIn("matplotlib", fig_module)
       THEN After(<<"supported_libs">>,
                add_plot_matplotlib(figure_object, row, column, row_span,
                                    col_span, css_class, matplotlib_params))
       ELSE IF StrIn("plotly", fig_module)
       THEN After(<<"supported_libs">>,
                add_plot_plotly(figure_object, row, column, row_span, col_span,
                                css_class, plotly_config, token))
       ELSE Failed(<<"supported_libs">>,
                Raise("RuntimeError", "We should not be here!"))

\* Slide.add_plot
add_plot(elements, filled_pos, figure_object, row, column, row_span, col_span, css_class, bokeh_theme, matplotlib_params, plotly_config, token) ==
    Place(elements, filled_pos,
          add_plot_make(figure_object, row, column, row_span, col_span,
                        css_class, bokeh_theme, matplotlib_params,
                        plotly_config, token),
          row, column)

(* The derived views of a slide.                                           *)

\* Slide._plotly_figs
_plotly_figs(elements) ==
    SelectSeq(elements, LAMBDA e : e.__class__ = "PlotlyFigure")

\* Slide._bokeh_figs
_bokeh_figs(elements) ==
    SelectSeq(elements, LAMBDA e : e.__class__ = "BokehFigure")

\* needs_plotly looking at the Bokeh figures.
needs_plotly_copied(elements) == Len(_bokeh_figs(elements)) > 0

\* Slide.needs_plotly
needs_plotly(elements) == Len(_plotly_figs(elements)) > 0

\* Slide.needs_bokeh
needs_bokeh(elements) == Len(_bokeh_figs(elements)) > 0

\* Slide.html: [exc, value]; the first get_div that raises ends the read.
html(elements, fs) ==
    LET divs == [i \in 1..Len(elements) |-> str(elements[i], fs)]
        raising == {i \in 1..Len(elements) : Raised(divs[i].exc)}
    IN IF raising # {}
       THEN [exc |-> divs[Min(raising)].exc, value |-> ""]
       ELSE [exc |-> NoExc,
             value |-> join("\n", [i \in 1..Len(elements) |-> divs[i].value])]

\* js_plot_func drawing the Plotly figures only.
js_plot_func_plotly_only(elements) ==
    LET plots == _plotly_figs(elements)
        plot_funcs == [i \in 1..Len(plots) |-> get_plot_js(plots[i]) \o ";"]
    IN IF Len(plots) > 0 THEN join("\n", plot_funcs) ELSE "return"

\* js_plot_func drawing the figures in the order of their insertion.
js_plot_func_insertion_order(elements) ==
    LET plots == SelectSeq(elements,
                     LAMBDA e : e.__class__ \in {"BokehFigure", "PlotlyFigure"})
        plot_funcs == [i \in 1..Len(plots) |-> get_plot_js(plots[i]) \o ";"]
    IN IF Len(plots) > 0 THEN join("\n", plot_funcs) ELSE "return"

\* Slide.js_plot_func
js_plot_func(elements) ==
    LET plots == _bokeh_figs(elements) \o _plotly_figs(elements)
        plot_funcs == [i \in 1..Len(plots) |-> get_plot_js(plots[i]) \o ";"]
    IN IF Len(plots) > 0 THEN join("\n", plot_funcs) ELSE "return"

\* js_purge_func without the purge of the Plotly figures.
js_purge_func_no_plotly(elements) ==
    IF needs_bokeh(elements)
    THEN "\nBokeh.documents.forEach((doc) => doc.clear());\nBokeh.documents.length = 0;"
    ELSE "return"

\* Slide.js_purge_func
js_purge_func(elements) ==
    LET figs == _plotly_figs(elements)
        bokeh_purge == IF needs_bokeh(elements)
                       THEN "\nBokeh.documents.forEach((doc) => doc.clear());\nBokeh.documents.length = 0;"
                       ELSE ""
        plotly_purge_funcs ==
            [i \in 1..Len(figs) |-> "Plotly.purge('" \o figs[i].fig_id \o "');"]
        plotly_purge == IF needs_plotly(elements)
                        THEN join("\n", plotly_purge_funcs) ELSE ""
    IN IF needs_bokeh(elements) \/ needs_plotly(elements)
       THEN bokeh_purge \o plotly_purge
       ELSE "return"

-----------------------------------------------------------------------------
(* The import statements a module runs when it is loaded.                  *)

Imports(module) ==
    CASE module = "needful" ->
             <<"needful._presentation", "needful._slide", "needful._css">>
      [] module = "needful._presentation" ->
             <<"jinja2", "webbrowser", "needful._utils", "needful._slide">>
      [] module = "needful._slide" ->
             <<"needful._css", "needful._html_objects", "needful._preview",
               "needful._utils">>
      [] module = "needful._html_objects" ->
             <<"needful._html_objects.grid_object",
               "needful._html_objects.plotly_figure",
               "needful._html_objects.textbox",
               "needful._html_objects.image">>
      [] module = "needful._html_objects.plotly_figure" ->
             <<"plotly.graph_objects", "needful._html_objects.grid_object",
               "needful._utils">>
      [] module = "needful._html_objects.textbox" ->
             <<"markdown", "needful._html_objects.grid_object", "needful._utils">>
      [] module = "needful._html_objects.image" ->
             <<"PIL", "needful._html_objects.grid_object", "needful._utils">>
      [] OTHER -> <<>>

\* The modules loaded, in order, by importing a module that is not yet loaded.
RECURSIVE Load(_, _)
RECURSIVE LoadAll(_, _)
Load(module, loaded) ==
    IF \E i \in 1..Len(loaded) : loaded[i] = module THEN loaded
    ELSE LoadAll(Imports(module), Append(loaded, module))
LoadAll(modules, loaded) ==
    IF Len(modules) = 0 THEN loaded
    ELSE LoadAll(Tail(modules), Load(Head(modules), loaded))

\* The steps of `from needful import Slide`.
ImportNeedful ==
    LET loaded == Load("needful", <<>>)
    IN [i \in 1..Len(loaded) |-> "import " \o loaded[i]]

-----------------------------------------------------------------------------
(* The inputs offered to the operations.                                   *)

Contents == {PyStr("hi"), PyInt(42)}
CssClasses == {PyNone}
Paths == {PyStr("a.png"), PyStr("imgdir"), PyStr("gone.png"), PyStr("notes.txt")}
WidthPcts == {100}
FigureObjects ==
    {PlotlyFig, PlotlyScatter, MplFig, MplAxes, MplNormalize, BokehFig,
     BokehRange, DataFrame}
MatplotlibParams == {PyNone, PyDict([format |-> "pdf"])}

\* matplotlib_params is offered with the figures MPLFigure is constructed from.
ParamsFor(figure_object) ==
    IF figure_object \in {MplFig, MplAxes} THEN MatplotlibParams ELSE {PyNone}

\* token_hex draws a token when an adapter that holds a fig_id is constructed.
TokensFor(figure_object) ==
    IF figure_object \in {PlotlyFig, BokehFig} THEN Tokens ELSE {""}

\* The calls of slide.add_textbox(...), with their arguments.
TextboxCalls ==
    {[op |-> "add_textbox", content |-> content, row |-> row,
      column |-> column, row_span |-> row_span, col_span |-> col_span,
      css_class |-> css_class] :
        content \in Contents, row \in Rows, column \in Cols,
        row_span \in RowSpans, col_span \in ColSpans, css_class \in CssClasses}

\* The calls of slide.add_image(...).
ImageCalls ==
    {[op |-> "add_image", image_path |-> image_path, row |-> row,
      column |-> column, row_span |-> row_span, col_span |-> col_span,
      width_pct |-> width_pct, css_class |-> css_class] :
        image_path \in Paths, row \in Rows, column \in Cols,
        row_span \in RowSpans, col_span \in ColSpans, width_pct \in WidthPcts,
        css_class \in CssClasses}

\* The calls of slide.add_plot(...); token is what token_hex will return.
PlotCallsOf(figure_object) ==
    {[op |-> "add_plot", figure_object |-> figure_object, row |-> row,
      column |-> column, row_span |-> row_span, col_span |-> col_span,
      css_class |-> css_class, matplotlib_params |-> matplotlib_params,
      token |-> token] :
        row \in Rows, column \in Cols, row_span \in RowSpans,
        col_span \in ColSpans, css_class \in CssClasses,
        matplotlib_params \in ParamsFor(figure_object),
        token \in TokensFor(figure_object)}

PlotCalls == UNION {PlotCallsOf(figure_object) : figure_object \in FigureObjects}

\* The element constructed by a call: [exc, self, steps].
Construct(c, fs) ==
    CASE c.op = "add_textbox" ->
             TextBox(c.content, c.row, c.column, c.row_span, c.col_span,
                     TRUE, TRUE, c.css_class)
      [] c.op = "add_image" ->
             Image(c.image_path, c.row, c.column, c.row_span, c.col_span,
                   c.width_pct, c.css_class, fs)
      [] c.op = "add_plot" ->
             add_plot_make(c.figure_object, c.row, c.column, c.row_span,
                           c.col_span, c.css_class, PyNone,
                           c.matplotlib_params, PyNone, c.token)

\* The call made on a slide: [exc, steps, elements, filled_pos].
Call(c, elements, filled_pos, fs) ==
    CASE c.op = "add_textbox" ->
             add_textbox(elements, filled_pos, c.content, c.row, c.column,
                         c.row_span, c.col_span, c.css_class, TRUE, TRUE)
      [] c.op = "add_image" ->
             add_image(elements, filled_pos, c.image_path, c.row, c.column,
                       c.row_span, c.col_span, c.width_pct, c.css_class, fs)
      [] c.op = "add_plot" ->
             add_plot(elements, filled_pos, c.figure_object, c.row, c.column,
                      c.row_span, c.col_span, c.css_class, PyNone,
                      c.matplotlib_params, PyNone, c.token)

\* What the caller passed as the subject of the call.
Subject(c) ==
    CASE c.op = "add_textbox" -> c.content.type
      [] c.op = "add_image" -> c.image_path.value
      [] c.op = "add_plot" -> c.figure_object.module

-----------------------------------------------------------------------------
(* The state machine: one slide, the calls made on it, the file system.    *)

\* The slide and the presentation as their constructors leave them.
Fresh ==
    /\ _elements = <<>>
    /\ _filled_pos = <<>>
    /\ accepted = <<>>
    /\ last = [op |-> "import", arg |-> "needful", exc |-> NoExc,
               steps |-> ImportNeedful, occupied |-> FALSE]
    /\ slides = <<>>
    /\ _css_themes = <<>>
    /\ html_out = ""
    /\ written = <<>>
    /\ plast = [op |-> "Presentation", arg |-> <<>>, exc |-> NoExc,
                out |-> "", steps |-> <<>>]
    /\ constructed = [op |-> "none"]

Init ==
    /\ files = {"a.png"}
    /\ Fresh

\* The file system holds an image and a file that is not an image.
InitFs ==
    /\ files = {"a.png", "notes.txt"}
    /\ Fresh

\* The call c is made on the slide and returns or raises; last keeps, with
\* the outcome, whether the position asked for was registered already.
Do(c) ==
    \E r \in {Call(c, _elements, _filled_pos, files)} :
        /\ _elements' = r.elements
        /\ _filled_pos' = r.filled_pos
        /\ last' = [op |-> c.op, arg |-> Subject(c), exc |-> r.exc,
                    steps |-> r.steps,
                    occupied |-> <<c.row, c.column>> \in Range(_filled_pos)]
        /\ accepted' = IF Raised(r.exc) THEN accepted
                       ELSE Append(accepted, Construct(c, files).self)

\* slide.add_textbox(content, row, column, row_span, col_span, css_class)
AddTextbox ==
    \E c \in TextboxCalls :
        /\ Len(_elements) < MaxElems
        /\ Do(c)
        /\ UNCHANGED files
        /\ UNCHANGED <<presentation_vars, constructed>>

\* slide.add_image(image_path, row, column, row_span, col_span, width_pct, css_class)
AddImage ==
    \E c \in ImageCalls :
        /\ Len(_elements) < MaxElems
        /\ Do(c)
        /\ UNCHANGED files
        /\ UNCHANGED <<presentation_vars, constructed>>

\* slide.add_plot(figure_object, row, column, row_span, col_span, css_class, ...)
AddPlot ==
    \E c \in PlotCalls :
        /\ Len(_elements) < MaxElems
        /\ Do(c)
        /\ UNCHANGED files
        /\ UNCHANGED <<presentation_vars, constructed>>

\* The files the environment may remove.
Removable == {"a.png"}

\* The environment removes a file.
RemoveFile ==
    /\ \E path \in files \cap Removable : files' = files \ {path}
    /\ UNCHANGED <<_elements, _filled_pos, accepted, last>>
    /\ UNCHANGED <<presentation_vars, constructed>>

\* The calls made on the slide, with the files in place.
Next ==
    \/ AddTextbox
    \/ AddImage
    \/ AddPlot

Spec == Init /\ [][Next]_vars

\* The same calls, with an environment that removes files between them.
NextFs ==
    \/ AddTextbox
    \/ AddImage
    \/ AddPlot
    \/ RemoveFile

SpecFs == InitFs /\ [][NextFs]_vars

-----------------------------------------------------------------------------
(* Properties of the add operations.                                       *)

\* The result of making the call c on the slide as it is now.
Result(c) == Call(c, _elements, _filled_pos, files)

Calls == TextboxCalls \cup ImageCalls \cup PlotCalls

\* The error the specification calls PositionOccupied.
PositionOccupied(row, column) ==
    [type |-> "ValueError",
     msg |-> "An element is already present in row " \o ToString(row)
                 \o ", column " \o ToString(column) \o " of this slide!"]

\* (row, column) is the position of an element an add call has accepted.
AcceptedAt(row, column) ==
    \E i \in 1..Len(accepted) : accepted[i].row = row /\ accepted[i].column = column

\* The element of the call c is constructed without error.
Constructs(c) == ~Raised(Construct(c, files).exc)

\* C1, as amended: an add whose (row, column) is that of an already accepted
\* element fails and leaves the element list and the occupied positions as
\* they were; it fails with PositionOccupied (ValueError) when the element
\* itself is constructed without error.
C1_OccupiedAddFails ==
    \A c \in Calls :
        AcceptedAt(c.row, c.column) =>
            /\ Raised(Result(c).exc)
            /\ Result(c).elements = _elements
            /\ Result(c).filled_pos = _filled_pos
            /\ Constructs(c) => Result(c).exc = PositionOccupied(c.row, c.column)

\* C1, witness: the last call was rejected with PositionOccupied.
C1_Witness ==
    /\ Len(accepted) >= 1
    /\ \E row \in Rows, column \in Cols :
          /\ AcceptedAt(row, column)
          /\ last.exc = PositionOccupied(row, column)

\* C1, as stated: every add whose (row, column) is that of an already
\* accepted element fails with PositionOccupied.
C1_AsStated ==
    \A c \in Calls :
        AcceptedAt(c.row, c.column) =>
            /\ Result(c).exc = PositionOccupied(c.row, c.column)
            /\ Result(c).elements = _elements
            /\ Result(c).filled_pos = _filled_pos

\* C2: an add of an otherwise valid element at a (row, column) that no
\* accepted element has succeeds, whatever the spans of the elements: the new
\* element is appended and its position registered.
C2_FreePositionSucceeds ==
    \A c \in Calls :
        (Constructs(c) /\ ~AcceptedAt(c.row, c.column)) =>
            /\ ~Raised(Result(c).exc)
            /\ Result(c).elements = Append(_elements, Construct(c, files).self)
            /\ Result(c).filled_pos = Append(_filled_pos, <<c.row, c.column>>)

\* C2, witness: the second accepted element lies inside the rectangle of the
\* first, at another (row, column).
C2_Witness ==
    /\ Len(accepted) = 2
    /\ Len(_elements) = 2
    /\ accepted[2].column # accepted[1].column
    /\ accepted[2].row >= accepted[1].row
    /\ accepted[2].row < accepted[1].row + accepted[1].row_span
    /\ accepted[2].column >= accepted[1].column
    /\ accepted[2].column < accepted[1].column + accepted[1].col_span

(* Properties of element construction.                                     *)

\* The error the specification calls InvalidPlacement, for the argument name.
InvalidPlacement(name, var) ==
    [type |-> "ValueError",
     msg |-> name \o " must be greater than 0. Received " \o name \o " = "
                 \o ToString(var) \o "."]

\* The InvalidPlacement error of the first non-positive argument of c.
FirstInvalidPlacement(c) ==
    IF c.row < 1 THEN InvalidPlacement("row", c.row)
    ELSE IF c.column < 1 THEN InvalidPlacement("column", c.column)
    ELSE IF c.row_span < 1 THEN InvalidPlacement("row_span", c.row_span)
    ELSE InvalidPlacement("col_span", c.col_span)

PlacementPositive(c) ==
    c.row >= 1 /\ c.column >= 1 /\ c.row_span >= 1 /\ c.col_span >= 1

PlacementAttrs == {"row", "column", "row_span", "col_span"}

\* The arguments of c other than its placement pass the checks of its variant:
\* the content is a string, the image file exists, the figure is one that its
\* adapter accepts and is not to be saved as PDF.
OtherwiseValid(c) ==
    CASE c.op = "add_textbox" -> c.content.type = "str"
      [] c.op = "add_image" -> c.image_path.value \in files
      [] c.op = "add_plot" ->
             /\ c.figure_object \in {PlotlyFig, BokehFig, MplFig, MplAxes}
             /\ c.matplotlib_params = PyNone

\* C3, as amended: for every element variant whose other arguments pass the
\* variant's own checks, if any of row, column, row_span, col_span is less
\* than 1 construction fails with InvalidPlacement (ValueError) and none of
\* the four attributes has been set; if all four are positive they are stored
\* unchanged.
C3_PlacementValidated ==
    \A c \in Calls :
        OtherwiseValid(c) =>
            LET made == Construct(c, files)
            IN IF PlacementPositive(c)
               THEN /\ ~Raised(made.exc)
                    /\ made.self.row = c.row
                    /\ made.self.column = c.column
                    /\ made.self.row_span = c.row_span
                    /\ made.self.col_span = c.col_span
               ELSE /\ made.exc = FirstInvalidPlacement(c)
                    /\ PlacementAttrs \cap DOMAIN made.self = {}

\* C3, witness: the last call failed with InvalidPlacement, after an element
\* with positive placement was accepted.
C3_Witness ==
    /\ Len(accepted) = 1
    /\ accepted[1].row >= 1 /\ accepted[1].col_span >= 1
    /\ \E name \in PlacementAttrs : last.exc = InvalidPlacement(name, 0)

\* C3, as stated: for every element variant, whatever the other arguments, a
\* non-positive row, column or span makes construction fail with
\* InvalidPlacement with none of the four attributes set, and positive values
\* are stored unchanged.
C3_AsStated ==
    \A c \in Calls :
        LET made == Construct(c, files)
        IN IF PlacementPositive(c)
           THEN /\ PlacementAttrs \subseteq DOMAIN made.self
                /\ made.self.row = c.row
                /\ made.self.column = c.column
                /\ made.self.row_span = c.row_span
                /\ made.self.col_span = c.col_span
           ELSE /\ made.exc = FirstInvalidPlacement(c)
                /\ PlacementAttrs \cap DOMAIN made.self = {}

\* The calls offered at each (row, column).
CallsAt ==
    [pos \in Rows \X Cols |->
        {c \in Calls : c.row = pos[1] /\ c.column = pos[2]}]

\* C4: add_image with a path that is not an existing regular file fails with
\* FileNotFoundError naming that path; no element is appended and the
\* position is not registered, so that a valid add at that (row, column), if
\* no accepted element has it, succeeds afterwards.
C4_MissingImage ==
    /\ \A c \in ImageCalls :
          ~(c.image_path.value \in files) =>
              /\ Result(c).exc.type = "FileNotFoundError"
              /\ StrIn(c.image_path.value, Result(c).exc.msg)
              /\ Result(c).elements = _elements
              /\ Result(c).filled_pos = _filled_pos
    /\ \A pos \in Rows \X Cols :
          \A d \in CallsAt[pos] :
              (Constructs(d) /\ ~AcceptedAt(pos[1], pos[2])) =>
                  \A c \in CallsAt[pos] \cap ImageCalls :
                      ~(c.image_path.value \in files) =>
                          ~Raised(Call(d, Result(c).elements,
                                       Result(c).filled_pos, files).exc)

\* C4, witness: the last call was an add_image of a missing file, and it
\* failed with FileNotFoundError.
C4_Witness ==
    /\ last.op = "add_image"
    /\ last.arg = "gone.png"
    /\ last.exc.type = "FileNotFoundError"
    /\ StrIn("gone.png", last.exc.msg)

(* Properties of the derived views.                                        *)

\* The fragment of an accepted element.
Fragment(element) == str(element, files).value

FigureClasses == {"BokehFigure", "MPLFigure", "PlotlyFigure"}
InteractiveClasses == {"BokehFigure", "PlotlyFigure"}

\* The accepted elements of the given classes, in the order of the adds.
AcceptedOf(classes) == SelectSeq(accepted, LAMBDA e : e.__class__ \in classes)

\* C5: html is the newline-joined concatenation of the fragments of exactly
\* the elements whose add succeeded, in the order of the adds.
C5_HtmlInsertionOrder ==
    html(_elements, files) =
        [exc |-> NoExc,
         value |-> join("\n", [i \in 1..Len(accepted) |-> Fragment(accepted[i])])]

\* C5, witness: two elements were accepted, the second in a column to the
\* left of the first.
C5_Witness ==
    /\ Len(accepted) = 2
    /\ accepted[1].row = accepted[2].row
    /\ accepted[2].column < accepted[1].column
    /\ html(_elements, files).value =
           Fragment(accepted[1]) \o "\n" \o Fragment(accepted[2])

\* The slide holds a text box and one figure of an interactive backend.
TextAndFigure ==
    /\ Len(accepted) = 2
    /\ Len(AcceptedOf({"TextBox"})) = 1
    /\ Len(AcceptedOf(InteractiveClasses)) = 1

TheFigure == AcceptedOf(InteractiveClasses)[1]

\* The statement that clears every Bokeh document.
BokehClear ==
    "\nBokeh.documents.forEach((doc) => doc.clear());\nBokeh.documents.length = 0;"

RECURSIVE lines(_)
lines(s) ==
    IF ~StrIn("\n", s) THEN <<s>>
    ELSE LET i == CHOOSE i \in 1..Len(s) :
                      /\ SubSeq(s, i, i) = "\n"
                      /\ \A j \in 1..(i - 1) : SubSeq(s, j, j) # "\n"
         IN <<SubSeq(s, 1, i - 1)>> \o lines(SubSeq(s, i + 1, Len(s)))

\* script is n statements, each ended by a semicolon, joined by newlines.
IsStatements(script, n) ==
    /\ Len(lines(script)) = n
    /\ \A i \in 1..Len(lines(script)) :
          LET line == lines(script)[i]
          IN Len(line) > 0 /\ SubSeq(line, Len(line), Len(line)) = ";"

BackendLibs == {"bokeh", "matplotlib", "plotly"}

\* The module of the figure's class names the backend lib.
OfBackend(figure_object, lib) == StrIn(lib, figure_object.module)

\* s.startswith(prefix)
startswith(s, prefix) ==
    Len(s) >= Len(prefix) /\ SubSeq(s, 1, Len(prefix)) = prefix

\* The steps of add_plot that construct an adapter.
AdapterSteps == {"BokehFigure", "MPLFigure", "PlotlyFigure"}

Steps(r) == {r.steps[i] : i \in 1..Len(r.steps)}

\* C8: add_plot with an object whose module names none of the three backends
\* fails with TypeError (unknown figure_object) before any adapter is
\* constructed, and leaves the element list and the occupied positions as
\* they were.
C8_UnsupportedFigure ==
    \A figure_object \in FigureObjects :
        (\A lib \in BackendLibs : ~OfBackend(figure_object, lib)) =>
          \A c \in PlotCallsOf(figure_object) :
            /\ Result(c).exc =
                   [type |-> "TypeError",
                    msg |-> "Unknown figure_object passed to add_plot. Received figure of type "
                                \o c.figure_object.type \o "."]
            /\ Steps(Result(c)) \cap AdapterSteps = {}
            /\ Result(c).elements = _elements
            /\ Result(c).filled_pos = _filled_pos

\* C8, witness: the last call passed a pandas DataFrame to add_plot and
\* failed with TypeError, an element having been accepted before.
C8_Witness ==
    /\ Len(accepted) = 1
    /\ last.op = "add_plot"
    /\ last.arg = "pandas.core.frame"
    /\ last.exc.type = "TypeError"

\* The figure is of the backend lib and lacks what add_plot requires of it.
LacksCapability(figure_object, lib) ==
    /\ OfBackend(figure_object, lib)
    /\ CASE lib = "matplotlib" ->
                {"get_figure", "savefig"} \cap figure_object.attrs = {}
         [] lib = "plotly" -> ~("to_html" \in figure_object.attrs)
         [] lib = "bokeh" -> ~figure_object.json_ok

\* The start of the message of the error the specification calls
\* InvalidFigureObject.
InvalidFigurePrefix(lib) ==
    CASE lib = "matplotlib" -> "Unknown Matplotlib object passed to add_plot."
      [] lib = "plotly" -> "Unknown Plotly object passed to add_plot."
      [] lib = "bokeh" -> "Unknown Bokeh object passed to add_plot."

\* C9: add_plot with an object of a supported backend that lacks the
\* capability required of it (Matplotlib: neither get_figure nor savefig;
\* Plotly: no to_html; Bokeh: json_item raises) fails with TypeError (unknown
\* object of that backend), appends no element and registers no position.
C9_InvalidFigureObject ==
    \A figure_object \in FigureObjects, lib \in BackendLibs :
        LacksCapability(figure_object, lib) =>
          \A c \in PlotCallsOf(figure_object) :
            /\ Result(c).exc.type = "TypeError"
            /\ startswith(Result(c).exc.msg, InvalidFigurePrefix(lib))
            /\ Steps(Result(c)) \cap AdapterSteps = {}
            /\ Result(c).elements = _elements
            /\ Result(c).filled_pos = _filled_pos

\* C9, witness: the last call passed a Bokeh object that json_item rejects
\* and failed with TypeError, an element having been accepted before.
C9_Witness ==
    /\ Len(accepted) = 1
    /\ last.op = "add_plot"
    /\ last.arg = "bokeh.models.ranges"
    /\ last.exc.type = "TypeError"
    /\ last.steps[Len(last.steps)] = "json_item"

\* The backend libraries that the last call imported.
Imported ==
    {lib \in BackendLibs :
        \E i \in 1..Len(last.steps) :
            startswith(last.steps[i], "import " \o lib)}

\* C10: a backend library is imported only by an add_plot call to which a
\* figure of that backend was passed.
C10_ImportsOnlyUsedBackends ==
    \A lib \in Imported : last.op = "add_plot" /\ StrIn(lib, last.arg)

-----------------------------------------------------------------------------
(* needful/_css.py: CSSTheme                                               *)

\* CSSTheme.__init__, where token is the value token_hex(5) returns.
CSSTheme(token) ==
    SetAttr(SetAttr(NewObject("CSSTheme"), "id", token), "_css_dict", <<>>)

\* CSSTheme.__setitem__, for a str key and a str value not yet in the theme.
__setitem__(self, key, value) ==
    SetAttr(self, "_css_dict", Append(self._css_dict, <<key, value>>))

-----------------------------------------------------------------------------
(* needful/_slide.py: Slide.__init__                                       *)

\* The columns check with the bound off by one.
columns_check_nonnegative(columns) ==
    IF Raised(check_type("columns", PyInt(columns), <<"int">>))
    THEN check_type("columns", PyInt(columns), <<"int">>)
    ELSE IF columns < 0
    THEN Raise("ValueError",
               "columns = " \o ToString(columns)
                   \o ". Number of columns must be at least 1 or more.")
    ELSE NoExc

\* The check of columns, for an int columns.
columns_check(columns) ==
    IF Raised(check_type("columns", PyInt(columns), <<"int">>))
    THEN check_type("columns", PyInt(columns), <<"int">>)
    ELSE IF columns < 1
    THEN Raise("ValueError",
               "columns = " \o ToString(columns)
                   \o ". Number of columns must be at least 1 or more.")
    ELSE NoExc

BlankTitles ==
    Raise("ValueError",
          "Slide title and menu title are blank. If the title is to be left "
              \o "blank, then menu_title needs to be set.")

\* The menu title block without the test for two blank titles.
menu_title_block_unchecked(self, title, menu_title) ==
    LET tc == check_type("menu_title", menu_title, <<"str", "NoneType">>)
        given == IF menu_title = PyNone THEN "" ELSE menu_title.value
    IN IF Raised(tc)
       THEN [exc |-> tc, self |-> self, menu_title |-> menu_title]
       ELSE [exc |-> NoExc,
             self |-> SetAttr(self, "menu_title",
                              IF strip(given) = "" THEN title ELSE given),
             menu_title |-> PyStr(given)]

\* The block that checks and sets the menu title; __init__ runs it twice.
\* The result carries the local variable menu_title as the block leaves it.
menu_title_block(self, title, menu_title) ==
    LET tc == check_type("menu_title", menu_title, <<"str", "NoneType">>)
        given == IF menu_title = PyNone THEN "" ELSE menu_title.value
    IN IF Raised(tc)
       THEN [exc |-> tc, self |-> self, menu_title |-> menu_title]
       ELSE IF strip(title) = strip(given) /\ strip(given) = ""
       THEN [exc |-> BlankTitles, self |-> self, menu_title |-> PyStr(given)]
       ELSE [exc |-> NoExc,
             self |-> SetAttr(self, "menu_title",
                              IF strip(given) = "" THEN title ELSE given),
             menu_title |-> PyStr(given)]

\* Slide.__init__(title, columns, menu_title, theme, id=id) with the flags
\* left at their defaults; token is the value token_hex(5) would return.
\* The result is [exc, self].
Slide(title, columns, menu_title, theme, id, token) ==
    LET tc_id == check_type("id", id, <<"str", "NoneType">>)
        s1 == SetAttr(NewObject("Slide"), "id",
                      IF id = PyNone \/ strip(id.value) = ""
                      THEN token ELSE id.value)
        tc_title == check_type("title", title, <<"str">>)
        s2 == SetAttr(s1, "title", title.value)
        cc == columns_check(columns)
        s3 == SetAttr(s2, "n_cols", columns)
        first == menu_title_block(s3, title.value, menu_title)
        tc_theme == check_type("theme", theme, <<"CSSTheme", "NoneType">>)
        s4 == SetAttr(SetAttr(first.self, "theme", theme), "theme_id",
                      IF theme # PyNone THEN PyStr(theme.value.id)
                      ELSE PyNone)
        s5 == SetAttr(SetAttr(SetAttr(SetAttr(SetAttr(s4,
                  "_page_number", PyNone), "_nav_menu", PyNone),
                  "_autoscale", PyNone), "_overflow", PyNone),
                  "_disable_mathjax", FALSE)
        second == menu_title_block(s5, title.value, first.menu_title)
        s6 == SetAttr(SetAttr(second.self, "_elements", <<>>),
                      "_filled_pos", <<>>)
    IN IF Raised(tc_id) THEN [exc |-> tc_id, self |-> NewObject("Slide")]
       ELSE IF Raised(tc_title) THEN [exc |-> tc_title, self |-> s1]
       ELSE IF Raised(cc) THEN [exc |-> cc, self |-> s2]
       ELSE IF Raised(first.exc) THEN [exc |-> first.exc, self |-> s3]
       ELSE IF Raised(tc_theme) THEN [exc |-> tc_theme, self |-> first.self]
       ELSE IF Raised(second.exc) THEN [exc |-> second.exc, self |-> s5]
       ELSE [exc |-> NoExc, self |-> s6]

-----------------------------------------------------------------------------
(* The inputs offered to the constructors, and the constructors applied    *)
(* once each to every input.                                               *)

\* Column counts offered to Slide range over -MaxColumns..MaxColumns.
MaxColumns == 2
ColumnCounts == (0 - MaxColumns)..MaxColumns

Titles == {PyStr(""), PyStr("  "), PyStr("Intro")}
MenuTitles == {PyNone, PyStr(""), PyStr(" "), PyStr("Menu")}
SlideIds == {PyNone, PyStr(""), PyStr("s1")}

\* A theme as a Python value.
ThemeValue(theme) == [type |-> "CSSTheme", value |-> theme]

\* The theme objects: a fresh one per token, and one more that was given a
\* variable and whose token_hex(5) returned the value another theme has.
ThemeObjects ==
    {CSSTheme(token) : token \in Tokens}
        \cup {__setitem__(CSSTheme("0a1b2c3d4e"), "main-font-color", "white")}

Themes == {PyNone} \cup {ThemeValue(theme) : theme \in ThemeObjects}

SlideCalls ==
    {[op |-> "Slide", title |-> title, columns |-> columns,
      menu_title |-> menu_title, theme |-> theme, id |-> id, token |-> token] :
        title \in Titles, columns \in ColumnCounts, menu_title \in MenuTitles,
        theme \in Themes,
        id \in SlideIds, token \in Tokens}

\* Slide(...) is called with the arguments of c.
MakeSlide ==
    \E c \in SlideCalls :
        /\ constructed.op = "none"
        /\ \E r \in {Slide(c.title, c.columns, c.menu_title, c.theme, c.id,
                           c.token)} :
               constructed' = [op |-> "Slide", args |-> c, exc |-> r.exc,
                        self |-> r.self]
        /\ UNCHANGED <<slide_vars, presentation_vars>>

\* The css_class arguments offered to the element constructors.
CssClassArgs ==
    {PyNone, PyStr(""), PyStr("  "), PyStr("big"), PyStr(" big red ")}

\* The placement and the css_class an element constructor is called with.
GridArgs ==
    [row : Rows, column : Cols, row_span : RowSpans, col_span : ColSpans,
     css_class : CssClassArgs]

\* _check_and_set is called on a new grid object.
CheckAndSet ==
    \E g \in GridArgs :
        /\ constructed.op = "none"
        /\ \E r \in {_check_and_set(NewObject("GridObject"), g.row, g.column,
                                    g.row_span, g.col_span, g.css_class)} :
               constructed' = [op |-> "_check_and_set", args |-> g,
                               exc |-> r.exc, self |-> r.self]
        /\ UNCHANGED <<slide_vars, presentation_vars>>

\* TextBox(...) is called.
MakeTextBox ==
    \E g \in GridArgs, content \in Contents :
        /\ constructed.op = "none"
        /\ \E r \in {TextBox(content, g.row, g.column, g.row_span, g.col_span,
                             TRUE, TRUE, g.css_class)} :
               constructed' = [op |-> "TextBox",
                               args |-> [subject |-> content] @@ g,
                               exc |-> r.exc, self |-> r.self]
        /\ UNCHANGED <<slide_vars, presentation_vars>>

\* Image(...) is called.
MakeImage ==
    \E g \in GridArgs, image_path \in Paths, width_pct \in WidthPcts :
        /\ constructed.op = "none"
        /\ \E r \in {Image(image_path, g.row, g.column, g.row_span, g.col_span,
                           width_pct, g.css_class, files)} :
               constructed' = [op |-> "Image",
                               args |-> [subject |-> image_path] @@ g,
                               exc |-> r.exc, self |-> r.self]
        /\ UNCHANGED <<slide_vars, presentation_vars>>

\* MPLFigure(...) is called.
MakeMPLFigure ==
    \E g \in GridArgs, fig \in {MplFig, PlotlyFig}, config \in MatplotlibParams :
        /\ constructed.op = "none"
        /\ \E r \in {MPLFigure(fig, g.row, g.column, g.row_span, g.col_span,
                               g.css_class, config)} :
               constructed' = [op |-> "MPLFigure",
                               args |-> [subject |-> fig, config |-> config] @@ g,
                               exc |-> r.exc, self |-> r.self]
        /\ UNCHANGED <<slide_vars, presentation_vars>>

NextMake ==
    \/ MakeSlide
    \/ CheckAndSet
    \/ MakeTextBox
    \/ MakeImage
    \/ MakeMPLFigure

SpecMake == Init /\ [][NextMake]_vars

-----------------------------------------------------------------------------
(* Properties of Slide construction.                                       *)

Blank(s) == strip(s) = ""

\* The menu title given, "" when it is absent.
GivenMenuTitle(c) == IF c.menu_title = PyNone THEN "" ELSE c.menu_title.value

\* C11: a Slide whose title and menu title are both blank (empty, only
\* whitespace, or the menu title absent) is refused with a ValueError, the
\* error the specification calls ConfigurationError; with a blank title and
\* a menu title that is not blank, and a column count of at least one, the
\* Slide is constructed and its menu title is the one given; with a title
\* that is not blank and a blank or absent menu title, the menu title of the
\* Slide constructed is its title.
C11_MenuTitle ==
    constructed.op = "Slide" =>
        LET c == constructed.args
            title == c.title.value
        IN /\ Blank(title) /\ Blank(GivenMenuTitle(c))
                => constructed.exc.type = "ValueError"
           /\ Blank(title) /\ ~Blank(GivenMenuTitle(c)) /\ c.columns >= 1
                => /\ constructed.exc = NoExc
                   /\ constructed.self.menu_title = GivenMenuTitle(c)
           /\ ~Blank(title) /\ Blank(GivenMenuTitle(c)) /\ c.columns >= 1
                => /\ constructed.exc = NoExc
                   /\ constructed.self.menu_title = title

\* C11: a Slide with the whitespace title and the absent menu title was
\* refused because both are blank.
C11_Witness ==
    /\ constructed.op = "Slide"
    /\ constructed.args.title = PyStr("  ")
    /\ constructed.args.menu_title = PyNone
    /\ constructed.args.columns >= 1
    /\ constructed.exc = BlankTitles

\* C12: a Slide with a column count of zero or less is refused with a
\* ValueError, the error the specification calls ConfigurationError, and a
\* Slide that was constructed has the column count it was given, which is
\* at least one.
C12_ColumnCount ==
    constructed.op = "Slide" =>
        /\ constructed.args.columns <= 0
               => constructed.exc.type = "ValueError"
        /\ constructed.exc = NoExc
               => /\ constructed.self.n_cols >= 1
                  /\ constructed.self.n_cols = constructed.args.columns

\* C12: a Slide with a title and no columns was refused for its columns.
C12_Witness ==
    /\ constructed.op = "Slide"
    /\ constructed.args.columns = 0
    /\ constructed.args.title = PyStr("Intro")
    /\ constructed.exc =
           Raise("ValueError",
                 "columns = 0. Number of columns must be at least 1 or more.")

-----------------------------------------------------------------------------
(* needful/_presentation.py: Presentation                                  *)
(* The presentation self is the record of the attributes the operations    *)
(* read and write: slides, _css_themes and html_out.                       *)

\* A slide as a Python value.
SlideValue(slide) == [type |-> "Slide", value |-> slide]

\* A list and a bool as Python values.
PyList(items) == [type |-> "list", value |-> items]
PyBool(b) == [type |-> "bool", value |-> b]

\* add_slide registering the theme of every slide that has one.
add_slide_undeduplicated(self, slide) ==
    LET tc == check_type("slide", slide, <<"Slide">>)
        appended == [self EXCEPT !.slides = Append(@, slide.value)]
    IN IF Raised(tc) THEN [exc |-> tc, self |-> self]
       ELSE IF slide.value.theme # PyNone
       THEN [exc |-> NoExc,
             self |-> [appended EXCEPT !._css_themes =
                          Append(@, slide.value.theme.value)]]
       ELSE [exc |-> NoExc, self |-> appended]

\* add_slide with the test for a known theme inverted.
add_slide_inverted(self, slide) ==
    LET tc == check_type("slide", slide, <<"Slide">>)
        appended == [self EXCEPT !.slides = Append(@, slide.value)]
        css_theme_ids == {self._css_themes[i].id :
                             i \in 1..Len(self._css_themes)}
    IN IF Raised(tc) THEN [exc |-> tc, self |-> self]
       ELSE IF slide.value.theme # PyNone
                  /\ slide.value.theme.value.id \in css_theme_ids
       THEN [exc |-> NoExc,
             self |-> [appended EXCEPT !._css_themes =
                          Append(@, slide.value.theme.value)]]
       ELSE [exc |-> NoExc, self |-> appended]

\* Presentation.add_slide: [exc, self]
add_slide(self, slide) ==
    LET tc == check_type("slide", slide, <<"Slide">>)
        appended == [self EXCEPT !.slides = Append(@, slide.value)]
        css_theme_ids == {self._css_themes[i].id :
                             i \in 1..Len(self._css_themes)}
    IN IF Raised(tc) THEN [exc |-> tc, self |-> self]
       ELSE IF slide.value.theme # PyNone
                  /\ slide.value.theme.value.id \notin css_theme_ids
       THEN [exc |-> NoExc,
             self |-> [appended EXCEPT !._css_themes =
                          Append(@, slide.value.theme.value)]]
       ELSE [exc |-> NoExc, self |-> appended]

\* The loop of add_slides over the items still to add.
RECURSIVE add_each(_, _)
add_each(self, items) ==
    IF Len(items) = 0 THEN [exc |-> NoExc, self |-> self]
    ELSE LET r == add_slide(self, Head(items))
         IN IF Raised(r.exc) THEN r ELSE add_each(r.self, Tail(items))

\* add_slides adding the first slide of the list only.
add_slides_first_only(self, slide_list) ==
    LET tc == check_type("slide_list", slide_list, <<"list">>)
    IN IF Raised(tc) THEN [exc |-> tc, self |-> self]
       ELSE add_each(self, SubSeq(slide_list.value, 1,
                                  Min({1, Len(slide_list.value)})))

\* add_slides checking every item before it adds the first.
add_slides_all_or_nothing(self, slide_list) ==
    LET tc == check_type("slide_list", slide_list, <<"list">>)
        checks == [i \in 1..Len(slide_list.value) |->
                      check_type("slide", slide_list.value[i], <<"Slide">>)]
        failed == {i \in 1..Len(slide_list.value) : Raised(checks[i])}
    IN IF Raised(tc) THEN [exc |-> tc, self |-> self]
       ELSE IF failed # {} THEN [exc |-> checks[Min(failed)], self |-> self]
       ELSE add_each(self, slide_list.value)

\* Presentation.add_slides: [exc, self]
add_slides(self, slide_list) ==
    LET tc == check_type("slide_list", slide_list, <<"list">>)
    IN IF Raised(tc) THEN [exc |-> tc, self |-> self]
       ELSE add_each(self, slide_list.value)

\* The slide the add operations of the state machine are called on, as its
\* constructor returned it.  A slide object is named by that record; the
\* attributes that change afterwards are read through ElementsOf.
TheSlide ==
    Slide(PyStr("Live"), SlideColumns, PyNone, PyNone, PyStr("live"),
          "0a1b2c3d4e").self

\* The elements the slide held when it was constructed or last copied.
ElementsOf_snapshot(slide) == slide._elements

\* slide._elements as it is now: the add operations change the elements of
\* TheSlide; no operation changes those of another slide.
ElementsOf(slide) == IF slide = TheSlide THEN _elements ELSE slide._elements

\* What the template reads from a slide, read now.
SlideViews(slide) ==
    [id |-> slide.id, title |-> slide.title, menu_title |-> slide.menu_title,
     html |-> html(ElementsOf(slide), files),
     js_plot_func |-> js_plot_func(ElementsOf(slide)),
     js_purge_func |-> js_purge_func(ElementsOf(slide)),
     needs_plotly |-> needs_plotly(ElementsOf(slide)),
     needs_bokeh |-> needs_bokeh(ElementsOf(slide))]

\* The flag of a backend true only when every slide needs the backend.
any_all(flags) == \A i \in 1..Len(flags) : flags[i]

\* any([...]) over the flags of the slides.
any(flags) == \E i \in 1..Len(flags) : flags[i]

\* CDN.render() of bokeh.resources, and the script tag of Plotly.
BokehCdn == "<script src=\"https://cdn.bokeh.org/bokeh.min.js\"></script>"
PlotlyTag == "<script src=\"plotly.min.js\"></script>"

\* template.render(template_vars): the document, as far as it depends on
\* the flags of the backends, on the slides and on the themes.
render(template_vars) ==
    "<html>"
        \o (IF template_vars.plotly THEN PlotlyTag ELSE "")
        \o template_vars.bokeh
        \o join("\n", [i \in 1..Len(template_vars.slides) |->
               "<section id=\"" \o template_vars.slides[i].id \o "\">"
                   \o template_vars.slides[i].html.value
                   \o "<script>" \o template_vars.slides[i].js_plot_func
                   \o "</script></section>"])
        \o join("\n", [i \in 1..Len(template_vars.css_themes) |->
               "<theme id=\"" \o template_vars.css_themes[i].id \o "\"/>"])
        \o "</html>"

\* generate_html from the loading of the template on: the flags of the
\* backends, the rendering, the writing of the file, the browser.  A slide
\* whose html raises ends the rendering with that exception.
generate_html_render(self, filename, open_file, disk) ==
    LET views == [i \in 1..Len(self.slides) |-> SlideViews(self.slides[i])]
        needs_bokeh_ == any([i \in 1..Len(views) |-> views[i].needs_bokeh])
        bokeh_cdn == IF needs_bokeh_ THEN BokehCdn ELSE ""
        needs_plotly_ == any([i \in 1..Len(views) |-> views[i].needs_plotly])
        template_vars == [slides |-> views, plotly |-> needs_plotly_,
                          bokeh |-> bokeh_cdn,
                          css_themes |-> self._css_themes]
        raising == {i \in 1..Len(views) : Raised(views[i].html.exc)}
        before == <<"get_template">>
                      \o (IF needs_bokeh_
                          THEN <<"from bokeh.resources import CDN">>
                          ELSE <<>>)
                      \o <<"read css_file">>
        rendered == [self EXCEPT !.html_out = render(template_vars)]
        file_path == absolute(filename.value)
    IN IF raising # {}
       THEN [exc |-> views[Min(raising)].html.exc, self |-> self,
             disk |-> disk, out |-> "", steps |-> before,
             template_vars |-> template_vars]
       ELSE [exc |-> NoExc, self |-> rendered,
             disk |-> (file_path :> rendered.html_out) @@ disk,
             out |-> "",
             steps |-> before \o <<"render", "write">>
                           \o (IF open_file THEN <<"webbrowser.open">>
                               ELSE <<>>),
             template_vars |-> template_vars]

\* generate_html without the test for an empty presentation.
generate_html_unguarded(self, filename, open_file, disk) ==
    LET tc_filename == check_type("filename", filename, <<"str", "Path">>)
        tc_open == check_type("open_file", PyBool(open_file), <<"bool">>)
    IN IF Raised(tc_filename)
       THEN [exc |-> tc_filename, self |-> self, disk |-> disk,
             out |-> "", steps |-> <<>>, template_vars |-> <<>>]
       ELSE IF Raised(tc_open)
       THEN [exc |-> tc_open, self |-> self, disk |-> disk,
             out |-> "", steps |-> <<>>, template_vars |-> <<>>]
       ELSE generate_html_render(self, filename, open_file, disk)

\* Presentation.generate_html(filename, open_file), with disk the files
\* written so far: [exc, self, disk, out, steps, template_vars], where out
\* is the text printed and steps the effects outside the presentation.
generate_html(self, filename, open_file, disk) ==
    LET tc_filename == check_type("filename", filename, <<"str", "Path">>)
        tc_open == check_type("open_file", PyBool(open_file), <<"bool">>)
    IN IF Raised(tc_filename)
       THEN [exc |-> tc_filename, self |-> self, disk |-> disk,
             out |-> "", steps |-> <<>>, template_vars |-> <<>>]
       ELSE IF Raised(tc_open)
       THEN [exc |-> tc_open, self |-> self, disk |-> disk,
             out |-> "", steps |-> <<>>, template_vars |-> <<>>]
       ELSE IF Len(self.slides) = 0
       THEN [exc |-> NoExc, self |-> self, disk |-> disk,
             out |-> "No slides to render! Abort.", steps |-> <<>>,
             template_vars |-> <<>>]
       ELSE generate_html_render(self, filename, open_file, disk)

-----------------------------------------------------------------------------
(* The state machine of a presentation: slides constructed beforehand are  *)
(* added to it, one by one or as a list, and it is rendered.               *)

\* At most MaxSlides slides are added to the presentation.
MaxSlides == 3
\* The lists given to add_slides have at most MaxListLen items.
MaxListLen == 2

\* The slides constructed beforehand: with and without a theme, with an id
\* of their own and with a generated one.
SlideObjects ==
    {Slide(PyStr("Intro"), 1, PyNone, theme, id, token).self :
        theme \in Themes, id \in {PyNone, PyStr("s1")}, token \in Tokens}

\* What the caller may pass as a slide: a Slide, or a title by mistake.
SlideArgs == {SlideValue(slide) : slide \in SlideObjects} \cup {PyStr("Intro")}

SlideLists ==
    {PyList(items) : items \in UNION {[1..n -> SlideArgs] : n \in 0..MaxListLen}}

Filenames == {PyStr("out.html")}

\* The presentation as the operations see it.
Self == [slides |-> slides, _css_themes |-> _css_themes, html_out |-> html_out]

AddSlide ==
    \E slide \in SlideArgs :
        /\ Len(slides) < MaxSlides
        /\ \E r \in {add_slide(Self, slide)} :
               /\ slides' = r.self.slides
               /\ _css_themes' = r.self._css_themes
               /\ plast' = [op |-> "add_slide", arg |-> <<slide>>,
                            exc |-> r.exc, out |-> "", steps |-> <<>>]
        /\ UNCHANGED <<html_out, written, slide_vars, constructed>>

\* What the caller may pass as a list by mistake: a Slide.
NotLists ==
    {SlideValue(Slide(PyStr("Intro"), 1, PyNone, PyNone, PyStr("s1"),
                      "0a1b2c3d4e").self)}

AddSlides ==
    \E slide_list \in SlideLists \cup NotLists :
        /\ slide_list.type = "list"
               => Len(slides) + Len(slide_list.value) <= MaxSlides
        /\ \E r \in {add_slides(Self, slide_list)} :
               /\ slides' = r.self.slides
               /\ _css_themes' = r.self._css_themes
               /\ plast' = [op |-> "add_slides",
                            arg |-> IF slide_list.type = "list"
                                    THEN slide_list.value ELSE <<slide_list>>,
                            exc |-> r.exc, out |-> "", steps |-> <<>>]
        /\ UNCHANGED <<html_out, written, slide_vars, constructed>>

GenerateHtml ==
    \E filename \in Filenames, open_file \in BOOLEAN :
        /\ \E r \in {generate_html(Self, filename, open_file, written)} :
               /\ html_out' = r.self.html_out
               /\ written' = r.disk
               /\ plast' = [op |-> "generate_html", arg |-> <<filename>>,
                            exc |-> r.exc, out |-> r.out, steps |-> r.steps]
        /\ UNCHANGED <<slides, _css_themes, slide_vars, constructed>>

NextPres ==
    \/ AddSlide
    \/ AddSlides
    \/ GenerateHtml

SpecPres == Init /\ [][NextPres]_vars

-----------------------------------------------------------------------------
(* Properties of the presentation.                                         *)

\* C13: no two entries of the slide sequence of a presentation have the
\* same id.
C13_SlideIdsUnique ==
    \A i, j \in 1..Len(slides) : slides[i].id = slides[j].id => i = j

\* The slides of the presentation that bring a theme whose id no earlier
\* slide brought.
FirstAppearances ==
    {k \in 1..Len(slides) :
        /\ slides[k].theme # PyNone
        /\ \A j \in 1..(k - 1) :
               slides[j].theme # PyNone
                   => slides[j].theme.value.id # slides[k].theme.value.id}

\* The i-th of them, in the order of the slides.
FirstAppearance(i) ==
    CHOOSE k \in FirstAppearances :
        Cardinality({j \in FirstAppearances : j <= k}) = i

\* C14: no two themes of the theme list have the same id, and the list
\* holds, once each and in the order of their first appearance, the themes
\* of the slides.
C14_ThemesOnce ==
    /\ \A i, j \in 1..Len(_css_themes) :
           _css_themes[i].id = _css_themes[j].id => i = j
    /\ Len(_css_themes) = Cardinality(FirstAppearances)
    /\ \A i \in 1..Len(_css_themes) :
           _css_themes[i] = slides[FirstAppearance(i)].theme.value

\* C14: three slides were added, the first and the third share a theme and
\* the second has another; two themes are registered.
C14_Witness ==
    /\ Len(slides) = 3
    /\ slides[1].theme # PyNone
    /\ slides[2].theme # PyNone
    /\ slides[3].theme = slides[1].theme
    /\ slides[2].theme.value.id # slides[1].theme.value.id
    /\ _css_themes = <<slides[1].theme.value, slides[2].theme.value>>

\* Every item of the list is a Slide.
AllSlides(slide_list) ==
    \A i \in 1..Len(slide_list.value) : slide_list.value[i].type = "Slide"

\* The presentation after add_slide was called for the first k items.
RECURSIVE OneByOne(_, _)
OneByOne(items, k) ==
    IF k = 0 THEN Self ELSE add_slide(OneByOne(items, k - 1), items[k]).self

\* C15: add_slides with a list of Slides returns normally and leaves the
\* presentation as add_slide, called for each item in order, leaves it.
C15_AddSlidesIsAddSlideEach ==
    \A slide_list \in SlideLists :
        AllSlides(slide_list) =>
            add_slides(Self, slide_list) =
                [exc |-> NoExc,
                 self |-> OneByOne(slide_list.value, Len(slide_list.value))]

\* C15: add_slides was called with two Slides on a presentation that had
\* one, and all three are there in order.
C15_Witness ==
    /\ plast.op = "add_slides"
    /\ plast.exc = NoExc
    /\ Len(plast.arg) = 2
    /\ plast.arg[1] # plast.arg[2]
    /\ Len(slides) = 3
    /\ SubSeq(slides, 2, 3) = <<plast.arg[1].value, plast.arg[2].value>>

\* C16: while the presentation has no slide, generate_html returns without
\* raising after printing that there is nothing to render, no file has been
\* written, and html_out and the theme list are as the constructor left
\* them.
C16_NothingToRender ==
    Len(slides) = 0 =>
        /\ written = <<>>
        /\ html_out = ""
        /\ _css_themes = <<>>
        /\ plast.op = "generate_html"
               => /\ plast.exc = NoExc
                  /\ plast.out = "No slides to render! Abort."
                  /\ plast.steps = <<>>

\* C16: generate_html was called on a presentation without slides.
C16_Witness ==
    /\ plast.op = "generate_html"
    /\ Len(slides) = 0
    /\ plast.out = "No slides to render! Abort."

-----------------------------------------------------------------------------
(* Properties of rendering after the files have changed.                   *)

\* The element is an Image whose file has the given fate.
ImageGone(element) ==
    element.__class__ = "Image" /\ element.image_file.value \notin files

ImageUnreadable(element) ==
    /\ element.__class__ = "Image"
    /\ element.image_file.value \in files
    /\ ~IsImageFile(element.image_file.value)

-----------------------------------------------------------------------------
(* Properties of the order of the construction steps.                      *)

\* The calls that construct a TextBox, an Image or an MPLFigure.
VariantCalls ==
    TextboxCalls \cup ImageCalls \cup PlotCallsOf(MplFig)
        \cup PlotCallsOf(MplAxes)

\* The steps of construction that touch a file or serialize a figure.
EffectSteps == {"check_exists", "savefig"}

\* C18, as amended: every variant checks its own leading arguments before
\* the placement.  A call with a non-positive row, column or span and
\* another defect (content that is not a string, a missing image file, a
\* figure to be saved as PDF) fails with the error of that defect, and the
\* placement has not been examined; a call with a non-positive placement
\* and no other defect fails with InvalidPlacement, for an Image after the
\* file check and for an MPLFigure after savefig.
C18_OwnChecksFirst ==
    \A c \in VariantCalls :
        ~PlacementPositive(c) =>
            LET r == Construct(c, files)
            IN IF OtherwiseValid(c)
               THEN /\ r.exc = FirstInvalidPlacement(c)
                    /\ r.steps[Len(r.steps)] = "_check_and_set"
                    /\ c.op = "add_image" => "check_exists" \in Steps(r)
                    /\ c.op = "add_plot" => "savefig" \in Steps(r)
               ELSE /\ Raised(r.exc)
                    /\ r.exc # FirstInvalidPlacement(c)
                    /\ "_check_and_set" \notin Steps(r)

\* C18: a Matplotlib figure was given a row, column or span of 0; savefig
\* ran, and then the placement was refused.
C18_Witness ==
    /\ last.op = "add_plot"
    /\ \E name \in PlacementAttrs : last.exc = InvalidPlacement(name, 0)
    /\ \E i, j \in 1..Len(last.steps) :
           /\ i < j
           /\ last.steps[i] = "savefig"
           /\ last.steps[j] = "_check_and_set"

\* C18, as stated: a call with a non-positive row, column or span fails with
\* InvalidPlacement, whatever its other defects, and construction has
\* neither checked a file nor serialized a figure.
C18_AsStated ==
    \A c \in VariantCalls :
        ~PlacementPositive(c) =>
            /\ Construct(c, files).exc = FirstInvalidPlacement(c)
            /\ Steps(Construct(c, files)) \cap EffectSteps = {}

-----------------------------------------------------------------------------
(* Properties of the grid object.                                          *)

\* The operations whose outcome holds what _check_and_set stored as
\* css_class: _check_and_set itself, and the constructors that leave the
\* attribute alone afterwards.
StoresCssClass == {"_check_and_set", "Image", "MPLFigure"}

\* C19: for every css_class that is blank after trimming (the empty string
\* or whitespace only) the value _check_and_set stores is None, and a
\* css_class that is not blank is stored unchanged.
C19_BlankCssClassIsNone ==
    constructed.op \in StoresCssClass /\ constructed.exc = NoExc
        /\ constructed.args.css_class # PyNone
      => IF Blank(constructed.args.css_class.value)
         THEN constructed.self.css_class = PyNone
         ELSE constructed.self.css_class = constructed.args.css_class

\* The constructors of the grid elements.
ElementOps == {"TextBox", "Image", "MPLFigure"}

\* The arguments of the constructor other than the placement are valid.
SubjectValid ==
    CASE constructed.op = "TextBox" -> constructed.args.subject.type = "str"
      [] constructed.op = "Image" -> constructed.args.subject.value \in files
      [] constructed.op = "MPLFigure" ->
             /\ constructed.args.subject = MplFig
             /\ constructed.args.config = PyNone

\* The extents the style of a fragment gives for the placement g.
Extents(g) ==
    "grid-column : " \o ToString(g.column) \o " / "
        \o ToString(g.column + g.col_span)
        \o "; grid-row : " \o ToString(g.row) \o " / "
        \o ToString(g.row + g.row_span) \o ";"

\* C20: a grid element constructed with positive row, column, row_span and
\* col_span, its other arguments being valid, is constructed without error,
\* and the style of its fragment gives grid-column as column / column +
\* col_span and grid-row as row / row + row_span.
C20_GridExtents ==
    constructed.op \in ElementOps /\ SubjectValid
        /\ PlacementPositive(constructed.args)
      => /\ constructed.exc = NoExc
         /\ str(constructed.self, files).exc = NoExc
         /\ StrIn("style=\"" \o Extents(constructed.args) \o "\"",
                  str(constructed.self, files).value)

\* C20: an image was constructed in row 1 and column 2 with a span of two
\* columns, and its fragment says so.
C20_Witness ==
    /\ constructed.op = "Image"
    /\ constructed.exc = NoExc
    /\ constructed.args.row = 1 /\ constructed.args.column = 2
    /\ constructed.args.row_span = 1 /\ constructed.args.col_span = 2
    /\ StrIn("style=\"grid-column : 2 / 4; grid-row : 1 / 2;\"",
             str(constructed.self, files).value)

-----------------------------------------------------------------------------
(* Properties of the two phases of an image.                               *)

\* C21: add_image asks only whether the file exists: with a positive
\* placement at a free position it accepts every file that is there, image
\* or not, appends the element and registers the position; the file is read
\* whenever the fragment is rendered, so the fragment of an accepted image
\* whose file has since been removed raises FileNotFoundError, html raises
\* with it, and the fragment of an image whose file is there and is an image
\* is rendered.
C21_ImageTwoPhase ==
    /\ \A c \in ImageCalls :
           (c.image_path.value \in files /\ PlacementPositive(c)
                /\ ~AcceptedAt(c.row, c.column))
             => /\ Result(c).exc = NoExc
                /\ Len(Result(c).elements) = Len(_elements) + 1
                /\ Result(c).elements[Len(_elements) + 1].image_file
                       = c.image_path
                /\ Result(c).filled_pos
                       = Append(_filled_pos, <<c.row, c.column>>)
    /\ \A i \in 1..Len(_elements) :
           _elements[i].__class__ = "Image" =>
               IF ImageGone(_elements[i])
               THEN /\ str(_elements[i], files).exc.type = "FileNotFoundError"
                    /\ Raised(html(_elements, files).exc)
               ELSE IsImageFile(_elements[i].image_file.value)
                        => str(_elements[i], files).exc = NoExc

\* C21: add_image returned normally, the element is on the slide and its
\* position registered; the file was removed afterwards and the fragment
\* now raises FileNotFoundError.
C21_Witness ==
    /\ last.op = "add_image"
    /\ last.exc = NoExc
    /\ Len(_elements) = 1
    /\ Len(_filled_pos) = 1
    /\ accepted = _elements
    /\ ImageGone(_elements[1])
    /\ str(_elements[1], files).exc.type = "FileNotFoundError"

-----------------------------------------------------------------------------
(* Invariants of a slide.                                                  *)

\* C24: _filled_pos holds no pair twice, has as many entries as _elements,
\* and its i-th entry is the (row, column) of the i-th element.
C24_FilledPosMirrorsElements ==
    /\ \A i, j \in 1..Len(_filled_pos) :
           _filled_pos[i] = _filled_pos[j] => i = j
    /\ Len(_filled_pos) = Len(_elements)
    /\ \A i \in 1..Len(_elements) :
           _filled_pos[i] = <<_elements[i].row, _elements[i].column>>

\* C24: two elements are on the slide, the second in column 2.
C24_Witness ==
    /\ Len(_elements) = 2
    /\ _filled_pos = <<<<1, 1>>, <<1, 2>>>>
    /\ _elements[2].column = 2

\* The element of the call c reaches beyond the columns of the slide.
BeyondColumns(c) ==
    c.column > SlideColumns \/ c.column + c.col_span - 1 > SlideColumns

\* C25: the add operations do not look at the number of columns of the
\* slide: a call whose element is constructed, at a position that is free,
\* is accepted, appended and registered also when its column, or its column
\* + col_span - 1, is greater than the number of columns.
C25_ColumnCountIgnored ==
    \A c \in Calls :
        (BeyondColumns(c) /\ Constructs(c) /\ ~AcceptedAt(c.row, c.column)) =>
            /\ Result(c).exc = NoExc
            /\ Result(c).elements = Append(_elements, Construct(c, files).self)
            /\ Result(c).filled_pos = Append(_filled_pos, <<c.row, c.column>>)

\* C25: the slide has one column; an element in column 2 and an element
\* that starts in column 1 and spans two columns are on it.
C25_Witness ==
    /\ \E i \in 1..Len(_elements) : _elements[i].column > SlideColumns
    /\ \E i \in 1..Len(_elements) :
           /\ _elements[i].column <= SlideColumns
           /\ _elements[i].column + _elements[i].col_span - 1 > SlideColumns
    /\ accepted = _elements

WithoutMatplotlib(elements) ==
    SelectSeq(elements, LAMBDA e : e.__class__ # "MPLFigure")

-----------------------------------------------------------------------------
(* Properties of the order of construction and position check.             *)

\* C30: the element is constructed before the position is looked at: a call
\* at an occupied (row, column) whose element cannot be constructed raises
\* the error of the construction, not PositionOccupied; a call at an
\* occupied position whose element is constructed raises PositionOccupied;
\* in both cases _elements and _filled_pos are as before.
C30_ConstructionBeforePosition ==
    \A c \in Calls :
        AcceptedAt(c.row, c.column) =>
            /\ Result(c).exc = IF Constructs(c)
                               THEN PositionOccupied(c.row, c.column)
                               ELSE Construct(c, files).exc
            /\ ~Constructs(c) => "_check_grid_pos" \notin Steps(Result(c))
            /\ Result(c).elements = _elements
            /\ Result(c).filled_pos = _filled_pos

\* C30: the last call asked for a position that was occupied, and raised
\* the error of a construction defect.
C30_Witness ==
    /\ last.occupied
    /\ Raised(last.exc)
    /\ \A row \in Rows, column \in Cols :
           last.exc # PositionOccupied(row, column)
    /\ "_check_grid_pos" \notin Steps(last)
    /\ Len(_elements) = 1
    /\ Len(_filled_pos) = 1

-----------------------------------------------------------------------------
(* Properties of add_slides and of the themes.                             *)

\* The index of the first item of the list that is not a Slide.
FirstNotSlide(slide_list) ==
    Min({i \in 1..Len(slide_list.value) : slide_list.value[i].type # "Slide"})

\* C28: add_slides with a list whose k-th item is the first that is not a
\* Slide raises TypeError and leaves the presentation as the add_slide calls
\* for the first k - 1 items leave it; with an argument that is not a list
\* it raises TypeError and leaves the presentation as it was.
C28_AddSlidesNotAtomic ==
    /\ \A slide_list \in SlideLists :
           ~AllSlides(slide_list) =>
               LET r == add_slides(Self, slide_list)
                   k == FirstNotSlide(slide_list)
               IN /\ r.exc.type = "TypeError"
                  /\ r.self = OneByOne(slide_list.value, k - 1)
                  /\ r.self.slides =
                         slides \o [i \in 1..(k - 1) |-> slide_list.value[i].value]
    /\ \A not_list \in NotLists :
           /\ add_slides(Self, not_list).exc.type = "TypeError"
           /\ add_slides(Self, not_list).self = Self

\* C28: add_slides was called with a themed Slide followed by something
\* that is not a Slide; it raised TypeError, and the Slide and its theme
\* are in the presentation.
C28_Witness ==
    /\ plast.op = "add_slides"
    /\ plast.exc.type = "TypeError"
    /\ Len(plast.arg) = 2
    /\ plast.arg[1].type = "Slide"
    /\ plast.arg[2].type # "Slide"
    /\ plast.arg[1].value.theme # PyNone
    /\ slides = <<plast.arg[1].value>>
    /\ _css_themes = <<plast.arg[1].value.theme.value>>

\* C29: every slide of the presentation that has a theme has the id of its
\* theme in the theme list, and every theme of the list is the theme of a
\* slide of the presentation.
C29_ThemesMatchSlides ==
    /\ \A i \in 1..Len(slides) :
           slides[i].theme # PyNone =>
               \E j \in 1..Len(_css_themes) :
                   _css_themes[j].id = slides[i].theme.value.id
    /\ \A j \in 1..Len(_css_themes) :
           \E i \in 1..Len(slides) :
               /\ slides[i].theme # PyNone
               /\ slides[i].theme.value = _css_themes[j]

\* C29: a slide without a theme and two slides with different themes are in
\* the presentation, and the list holds the two themes.
C29_Witness ==
    /\ Len(slides) = 3
    /\ Len(_css_themes) = 2
    /\ \E i \in 1..3 : slides[i].theme = PyNone
    /\ \A j \in 1..2 : \E i \in 1..3 :
           slides[i].theme = ThemeValue(_css_themes[j])

-----------------------------------------------------------------------------
(* The state machine of a deck: a presentation that holds the slide the    *)
(* add operations are called on, before and after they are called.         *)

\* How many slides the deck takes.
MaxDeck == 2

\* A slide that held a Plotly figure before it was added and is not changed
\* afterwards.
PlotlySlide ==
    LET made == Slide(PyStr("Plots"), SlideColumns, PyNone, PyNone,
                      PyStr("plots"), "5f6a7b8c9d").self
        added == add_plot(<<>>, <<>>, PlotlyFig, 1, 1, 1, 1, PyNone, PyNone,
                          PyNone, PyNone, "5f6a7b8c9d")
    IN [made EXCEPT !._elements = added.elements,
                    !._filled_pos = added.filled_pos]

DeckSlides == {TheSlide, PlotlySlide}

\* The calls made on the slide of the deck: a text or a figure of each
\* backend, in one cell of the first row.
DeckCalls ==
    {c \in TextboxCalls \cup PlotCallsOf(PlotlyFig) \cup PlotCallsOf(BokehFig)
               \cup PlotCallsOf(MplFig) :
        /\ c.row = 1
        /\ c.row_span = 1
        /\ c.col_span = 1
        /\ c.op = "add_textbox" => c.content = PyStr("hi")
        /\ c.op = "add_plot" => /\ c.matplotlib_params = PyNone
                                /\ c.token = "0a1b2c3d4e"}

\* A call on the slide of the deck; last keeps, with the outcome, whether
\* the presentation held the slide already.
AddToSlide ==
    \E c \in DeckCalls :
        /\ Len(_elements) < MaxElems
        /\ \E r \in {Result(c)} :
               /\ _elements' = r.elements
               /\ _filled_pos' = r.filled_pos
               /\ last' = [op |-> c.op, arg |-> Subject(c), exc |-> r.exc,
                           steps |-> r.steps,
                           occupied |-> <<c.row, c.column>> \in Range(_filled_pos),
                           listed |-> TheSlide \in Range(slides)]
               /\ accepted' = IF Raised(r.exc) THEN accepted
                              ELSE Append(accepted, Construct(c, files).self)
        /\ UNCHANGED files
        /\ UNCHANGED <<presentation_vars, constructed>>

\* presentation.add_slide(slide) with a slide of the deck, which the
\* presentation may hold already.
AddDeckSlide ==
    \E slide \in DeckSlides :
        /\ Len(slides) < MaxDeck
        /\ \E r \in {add_slide(Self, SlideValue(slide))} :
               /\ slides' = r.self.slides
               /\ _css_themes' = r.self._css_themes
               /\ plast' = [op |-> "add_slide", arg |-> <<SlideValue(slide)>>,
                            exc |-> r.exc, out |-> "", steps |-> <<>>]
        /\ UNCHANGED <<html_out, written, slide_vars, constructed>>

NextDeck ==
    \/ AddToSlide
    \/ AddDeckSlide
    \/ GenerateHtml

SpecDeck == Init /\ [][NextDeck]_vars

\* Whether the slide holds a figure of the class now.
Holds(slide, class) ==
    \E j \in 1..Len(ElementsOf(slide)) : ElementsOf(slide)[j].__class__ = class

C23_SlidesByReference ==
    /\ \A slide \in DeckSlides :
           add_slide(Self, SlideValue(slide)).self.slides = Append(slides, slide)
    /\ Len(slides) > 0 =>
           \A filename \in Filenames :
               LET r == generate_html(Self, filename, FALSE, written)
               IN \A i \in 1..Len(slides) :
                      slides[i] = TheSlide =>
                          /\ r.template_vars.slides[i].html = html(_elements, files)
                          /\ r.template_vars.slides[i].js_plot_func
                                 = js_plot_func(_elements)
                          /\ r.template_vars.slides[i].js_purge_func
                                 = js_purge_func(_elements)

\* C23: the slide was added twice, an element was added to it afterwards,
\* and the document rendered last is the one with that element.
C23_Witness ==
    /\ slides = <<TheSlide, TheSlide>>
    /\ last.op # "import"
    /\ last.listed
    /\ ~Raised(last.exc)
    /\ plast.op = "generate_html"
    /\ html_out # ""
    /\ \A filename \in Filenames :
           html_out = render(generate_html(Self, filename, FALSE, written).template_vars)

====
